---- MODULE Spec2Model ----
(***************************************************************************)
(* Model of apps/design_tool/services/renderer.py (class DesignRenderer):  *)
(* the rendering of a Konva stage document onto a raster and the three     *)
(* exporters built on it.                                                  *)
(*                                                                         *)
(* JSON values.  A JSON object is a record (a function on its keys).       *)
(* Every other JSON value is a one-field record that names its Python      *)
(* type: [num |-> 5], [str |-> "red"], [list |-> <<...>>], [null |-> TRUE].*)
(* A raster is not stored pixel by pixel: it is its size and the sequence  *)
(* of drawing operations applied to it, and PixelAt reads a pixel as PIL   *)
(* leaves it (the last operation that covers it wins).                     *)
(***************************************************************************)
EXTENDS Integers, Sequences, FiniteSets, TLC

-----------------------------------------------------------------------------
(* JSON / Python values *)

Null == [null |-> TRUE]
Num(n) == [num |-> n]
Str(s) == [str |-> s]
List(l) == [list |-> l]
EmptyDict == [k \in {} |-> Null]

TypeTags == {"num", "str", "list", "null"}

IsNum(v) == "num" \in DOMAIN v
IsStr(v) == "str" \in DOMAIN v
IsList(v) == "list" \in DOMAIN v
IsNull(v) == "null" \in DOMAIN v
IsDict(v) == DOMAIN v \cap TypeTags = {}

\* dict.get(key, default)
\* The number n + 0.5, for n >= 0: num is what int() makes of it
NumHalf(n) == [num |-> n, half |-> TRUE]
\* v > 0, for a number v
Positive(v) == v.num > 0 \/ (v.num = 0 /\ "half" \in DOMAIN v)

Get(d, k, default) == IF k \in DOMAIN d THEN d[k] ELSE default

\* Python truth value of a JSON value (if fill:, if not text:)
Truthy(v) ==
    IF IsNull(v) THEN FALSE
    ELSE IF IsNum(v) THEN v.num # 0 \/ "half" \in DOMAIN v
    ELSE IF IsStr(v) THEN v.str # ""
    ELSE IF IsList(v) THEN v.list # <<>>
    ELSE DOMAIN v # {}

-----------------------------------------------------------------------------
(* Strings.  TLC cannot index into a string, so Chars spells the strings   *)
(* whose characters the code inspects (colours, image sources, families). *)

Chars(s) ==
    CASE s = "" -> <<>>
      [] s = "#ff0000" -> <<"#","f","f","0","0","0","0">>
      [] s = "#0000ff" -> <<"#","0","0","0","0","f","f">>
      [] s = "#00f" -> <<"#","0","0","f">>
      [] s = "#ffffff" -> <<"#","f","f","f","f","f","f">>
      [] s = "#000000" -> <<"#","0","0","0","0","0","0">>
      [] s = "#f97316" -> <<"#","f","9","7","3","1","6">>
      [] s = "#cccccc" -> <<"#","c","c","c","c","c","c">>
      [] s = "#999999" -> <<"#","9","9","9","9","9","9">>
      [] s = "#zzz" -> <<"#","z","z","z">>
      [] s = "red" -> <<"r","e","d">>
      [] s = "white" -> <<"w","h","i","t","e">>
      [] s = "cyan" -> <<"c","y","a","n">>
      [] s = "foo" -> <<"f","o","o">>
      [] s = "rgb(0,0,255)" -> <<"r","g","b","(","0",",","0",",","2","5","5",")">>
      [] s = "rgba(0,255,0,1)" ->
            <<"r","g","b","a","(","0",",","2","5","5",",","0",",","1",")">>
      [] s = "rgb(1,2" -> <<"r","g","b","(","1",",","2">>
      [] s = "Hi" -> <<"H","i">>
      [] s = "http://h/a" -> <<"h","t","t","p",":","/","/","h","/","a">>
      [] s = "http://h/b" -> <<"h","t","t","p",":","/","/","h","/","b">>
      [] s = "data:,AA" -> <<"d","a","t","a",":",",","A","A">>
      [] s = "data:AA" -> <<"d","a","t","a",":","A","A">>
      [] s = "a.png" -> <<"a",".","p","n","g">>
      [] s = "../s" -> <<".",".","/","s">>
      [] s = "/s" -> <<"/","s">>
      [] s = "a/../../s" -> <<"a","/",".",".","/",".",".","/","s">>
      [] s = "./a.png" -> <<".","/","a",".","p","n","g">>
      [] s = "a..b" -> <<"a",".",".","b">>
      [] s = "Arial" -> <<"A","r","i","a","l">>
      [] s = "Helvetica" -> <<"H","e","l","v","e","t","i","c","a">>
      [] s = "Times" -> <<"T","i","m","e","s">>
      [] s = "Nope" -> <<"N","o","p","e">>
      [] s = "7" -> <<"7">>
      [] s = "[]" -> <<"[","]">>

\* str.startswith(prefix), on spelled strings
StartsWith(cs, prefix) ==
    /\ Len(cs) >= Len(prefix)
    /\ \A i \in 1..Len(prefix) : cs[i] = prefix[i]

HexDigits == {"0","1","2","3","4","5","6","7","8","9","a","b","c","d","e","f"}
Digits == {"0","1","2","3","4","5","6","7","8","9"}

HexVal(c) ==
    CASE c = "0" -> 0 [] c = "1" -> 1 [] c = "2" -> 2 [] c = "3" -> 3
      [] c = "4" -> 4 [] c = "5" -> 5 [] c = "6" -> 6 [] c = "7" -> 7
      [] c = "8" -> 8 [] c = "9" -> 9 [] c = "a" -> 10 [] c = "b" -> 11
      [] c = "c" -> 12 [] c = "d" -> 13 [] c = "e" -> 14 [] c = "f" -> 15

\* int(digits) for a non-empty sequence of decimal digits
RECURSIVE DecVal(_)
DecVal(ds) ==
    IF ds = <<>> THEN 0
    ELSE 10 * DecVal(SubSeq(ds, 1, Len(ds) - 1)) + HexVal(ds[Len(ds)])

\* The fields of cs separated by sep (str.split / the groups of PIL's regex)
RECURSIVE SplitOn(_, _)
SplitOn(cs, sep) ==
    IF \A i \in 1..Len(cs) : cs[i] # sep THEN <<cs>>
    ELSE LET i == CHOOSE j \in 1..Len(cs) :
                    cs[j] = sep /\ \A k \in 1..(j - 1) : cs[k] # sep
         IN <<SubSeq(cs, 1, i - 1)>> \o SplitOn(SubSeq(cs, i + 1, Len(cs)), sep)

IsDecimal(ds) == ds # <<>> /\ \A i \in 1..Len(ds) : ds[i] \in Digits

-----------------------------------------------------------------------------
(* Colours: PIL.ImageColor and DesignRenderer._parse_color *)

Black == <<0, 0, 0>>
White == <<255, 255, 255>>

\* PIL.ImageColor.colormap, the entries the model's inputs can name
PilColormap(s) ==
    CASE s = "red" -> <<255, 0, 0>>
      [] s = "blue" -> <<0, 0, 255>>
      [] s = "green" -> <<0, 128, 0>>
      [] s = "black" -> <<0, 0, 0>>
      [] s = "white" -> <<255, 255, 255>>
      [] s = "yellow" -> <<255, 255, 0>>
      [] s = "orange" -> <<255, 165, 0>>
      [] s = "purple" -> <<128, 0, 128>>
      [] s = "pink" -> <<255, 192, 203>>
      [] s = "gray" -> <<128, 128, 128>>
      [] s = "brown" -> <<165, 42, 42>>
      [] s = "cyan" -> <<0, 255, 255>>

PilColorNames ==
    {"red", "blue", "green", "black", "white", "yellow", "orange", "purple",
     "pink", "gray", "brown", "cyan"}

\* The names _parse_color passes through without asking PIL
NamedColors ==
    {"red", "blue", "green", "black", "white", "yellow", "orange", "purple",
     "pink", "gray", "brown"}

Ok(rgb) == [ok |-> TRUE, rgb |-> rgb]
ValueError == [ok |-> FALSE, rgb |-> Black]

\* PIL.ImageColor.getrgb on the string s of characters cs: a colour name, #rgb, #rgba, #rrggbb,
\* #rrggbbaa, rgb(r,g,b) or rgba(r,g,b,a) gives a triple (alpha dropped);
\* anything else raises ValueError.
PilGetRgb(s, cs) ==
    LET hex == SubSeq(cs, 2, Len(cs))
        isHex == /\ StartsWith(cs, <<"#">>)
                 /\ \A i \in 1..Len(hex) : hex[i] \in HexDigits
        args(n) == SplitOn(SubSeq(cs, n + 1, Len(cs) - 1), ",")
        isCall(name, k) ==
            /\ StartsWith(cs, name \o <<"(">>)
            /\ cs[Len(cs)] = ")"
            /\ Len(args(Len(name) + 1)) = k
            /\ \A i \in 1..k : IsDecimal(args(Len(name) + 1)[i])
        triple(a) == <<DecVal(a[1]), DecVal(a[2]), DecVal(a[3])>>
    IN IF s \in PilColorNames THEN Ok(PilColormap(s))
       ELSE IF isHex /\ Len(hex) \in {3, 4}
            THEN Ok(<<17 * HexVal(hex[1]), 17 * HexVal(hex[2]), 17 * HexVal(hex[3])>>)
       ELSE IF isHex /\ Len(hex) \in {6, 8}
            THEN Ok(<<16 * HexVal(hex[1]) + HexVal(hex[2]),
                      16 * HexVal(hex[3]) + HexVal(hex[4]),
                      16 * HexVal(hex[5]) + HexVal(hex[6])>>)
       ELSE IF isCall(<<"r","g","b">>, 3) THEN Ok(triple(args(4)))
       ELSE IF isCall(<<"r","g","b","a">>, 4) THEN Ok(triple(args(5)))
       ELSE ValueError

PilGetColor(s) == PilGetRgb(s, Chars(s))

\* A colour as _parse_color returns it: a string handed on, or a triple
Rgb(t) == [rgb |-> t]

\* DesignRenderer._parse_color
ParseColor(color) ==
    IF ~Truthy(color) THEN Str("#000000")
    ELSE IF ~IsStr(color) THEN Str("#000000")        \* AttributeError, caught
    ELSE IF StartsWith(Chars(color.str), <<"#">>) THEN color
    ELSE IF StartsWith(Chars(color.str), <<"r","g","b">>) THEN color
    ELSE IF color.str \in NamedColors THEN color
    ELSE IF PilGetColor(color.str).ok THEN Rgb(PilGetColor(color.str).rgb)
    ELSE Str("#000000")                              \* ValueError, caught

\* ImageDraw._getink on an RGB image: a string goes through ImageColor and may
\* raise ValueError, a triple or an integer is taken as it is.
Ink(c) ==
    IF "rgb" \in DOMAIN c THEN Ok(c.rgb)
    ELSE IF IsStr(c) THEN PilGetColor(c.str)
    ELSE IF IsNum(c) THEN Ok(<<c.num % 256, (c.num \div 256) % 256, (c.num \div 65536) % 256>>)
    ELSE ValueError


-----------------------------------------------------------------------------
(* State *)

VARIABLES
    design_data,        \* the document the caller hands to the renderer
    disk,               \* font files ImageFont.truetype can open
    reachable,          \* image sources whose load gives a decodable image
    default_font_path,  \* self.default_font_path
    font_cache,         \* self.font_cache: cache key -> font
    temp_files,         \* temporary files that exist on the file system
    calls,              \* number of calls made so far
    outcome,            \* what the last call did
    shop,               \* the product, and what the PricingService was last asked
    user_design,        \* the UserDesign row of finalize_and_order_view
    font_loads,         \* font files opened so far: [key, file, size], in order
    threads             \* the threads inside _get_font: where each one is

vars ==
    <<design_data, disk, reachable, default_font_path, font_cache, temp_files,
      calls, outcome, font_loads, threads, shop, user_design>>

\* The variables of the renderer, and those of the rest of the application
renderer_vars ==
    <<design_data, disk, reachable, default_font_path, font_cache, temp_files,
      calls, outcome, font_loads, threads>>
app_vars == <<shop, user_design>>

-----------------------------------------------------------------------------
(* Fonts: PIL.ImageFont and DesignRenderer._get_font *)

PosixDefaultFont == "/System/Library/Fonts/Arial.ttf"

\* The alternatives _get_default_font_path tries, in order
FontAlternatives ==
    << "/usr/share/fonts/truetype/dejavu/DejaVuSans.ttf",
       "/usr/share/fonts/TTF/arial.ttf",
       "/System/Library/Fonts/Helvetica.ttc",
       "arial.ttf" >>

\* DesignRenderer._get_default_font_path on a posix system whose existing
\* files are d: the first alternative that exists, when the default does not
GetDefaultFontPath(d) ==
    IF PosixDefaultFont \in d THEN PosixDefaultFont
    ELSE IF \E i \in 1..Len(FontAlternatives) : FontAlternatives[i] \in d
         THEN FontAlternatives[CHOOSE i \in 1..Len(FontAlternatives) :
                  /\ FontAlternatives[i] \in d
                  /\ \A j \in 1..(i - 1) : FontAlternatives[j] \notin d]
    ELSE PosixDefaultFont

MappedFamilies ==
    {"Arial", "Helvetica", "Times", "Times New Roman", "Courier", "Courier New",
     "Verdana", "Georgia", "Comic Sans MS", "Impact"}

\* font_mapping of _get_font
FontMapping(family) ==
    CASE family \in {"Arial", "Helvetica"} -> "arial.ttf"
      [] family \in {"Times", "Times New Roman"} -> "times.ttf"
      [] family \in {"Courier", "Courier New"} -> "cour.ttf"
      [] family = "Verdana" -> "verdana.ttf"
      [] family = "Georgia" -> "georgia.ttf"
      [] family = "Comic Sans MS" -> "comic.ttf"
      [] family = "Impact" -> "impact.ttf"

TrueType(file, size) == [kind |-> "truetype", file |-> file, size |-> size]
\* ImageFont.load_default(): the font built into PIL, no file is read
LoadDefault == [kind |-> "default", file |-> "", size |-> 10]

\* ImageFont.truetype(file, size) raises OSError for a file it cannot open and
\* ValueError for a size that is not positive
TrueTypeLoads(file, size) == size > 0 /\ file \in disk

\* str(n) of an integer
RECURSIVE DecDigits(_)
DecDigits(n) ==
    IF n < 0 THEN <<"-">> \o DecDigits(0 - n)
    ELSE IF n < 10 THEN <<(<<"0","1","2","3","4","5","6","7","8","9">>)[n + 1]>>
    ELSE DecDigits(n \div 10) \o DecDigits(n % 10)

\* format(v) of a JSON value inside an f-string: a string as it is, a number
\* in decimal, None, an empty list, an empty dict
Format(v) ==
    IF IsStr(v) THEN Chars(v.str)
    ELSE IF IsNum(v) THEN DecDigits(v.num)
    ELSE IF IsNull(v) THEN <<"N","o","n","e">>
    ELSE IF IsList(v) THEN <<"[","]">>
    ELSE <<"{","}">>

\* f"{font_family}_{font_size}"
CacheKey(font_family, font_size) ==
    Format(font_family) \o <<"_">> \o DecDigits(font_size)

\* _get_font without its outer handler: a font that loads neither from the
\* aliased file nor from the default path raises to the caller
GetFontNoBuiltin(cache, font_family, font_size) ==
    LET key == CacheKey(font_family, font_size)
        font_file ==
            IF IsStr(font_family) /\ font_family.str \in MappedFamilies
            THEN FontMapping(font_family.str)
            ELSE default_font_path
        loads == /\ ~IsList(font_family) /\ ~IsDict(font_family)
                 /\ \/ TrueTypeLoads(font_file, font_size)
                    \/ TrueTypeLoads(default_font_path, font_size)
        font == IF TrueTypeLoads(font_file, font_size)
                THEN TrueType(font_file, font_size)
                ELSE TrueType(default_font_path, font_size)
    IN IF key \in DOMAIN cache
            THEN [font |-> cache[key], cache |-> cache, loaded |-> <<>>,
                  raised |-> FALSE]
       ELSE IF loads
            THEN [font |-> font, cache |-> cache @@ (key :> font),
                  loaded |-> <<[key |-> key, file |-> font.file, size |-> font_size]>>,
                  raised |-> FALSE]
       ELSE [font |-> LoadDefault, cache |-> cache, loaded |-> <<>>, raised |-> TRUE]

\* The miss path of _get_font: the font it makes and the font files it loads
\* for it.  font_mapping.get raises TypeError on a family that cannot be
\* hashed, truetype raises ValueError on a size that is not positive (neither
\* is an OSError: no second attempt) and OSError on a file it cannot open;
\* every failure ends in load_default(), which reads no file.
LoadFont(font_family, font_size) ==
    LET hashable == ~IsList(font_family) /\ ~IsDict(font_family)
        font_file ==
            IF IsStr(font_family) /\ font_family.str \in MappedFamilies
            THEN FontMapping(font_family.str)
            ELSE default_font_path
    IN IF ~hashable \/ font_size <= 0
            THEN [font |-> LoadDefault, files |-> <<>>]
       ELSE IF TrueTypeLoads(font_file, font_size)
            THEN [font |-> TrueType(font_file, font_size), files |-> <<font_file>>]
       ELSE IF TrueTypeLoads(default_font_path, font_size)
            THEN [font |-> TrueType(default_font_path, font_size),
                  files |-> <<default_font_path>>]
       ELSE [font |-> LoadDefault, files |-> <<>>]

\* The loads of one miss, as the log keeps them: cache key, file, size
LoadLog(key, font_size, files) ==
    [i \in 1..Len(files) |-> [key |-> key, file |-> files[i], size |-> font_size]]

\* The end of _get_font on a miss: l is what LoadFont gave; it is stored
\* under the key and returned
GetFontMiss(cache, key, font_size, l) ==
    [font |-> l.font, cache |-> (key :> l.font) @@ cache,
     loaded |-> LoadLog(key, font_size, l.files), raised |-> FALSE]

\* _get_font ignoring what the cache holds: every call loads
GetFontUncached(cache, font_family, font_size) ==
    GetFontMiss(cache, CacheKey(font_family, font_size), font_size,
                LoadFont(font_family, font_size))

\* _get_font answering a hit with the built-in font instead of the entry
GetFontHitBuiltin(cache, font_family, font_size) ==
    IF CacheKey(font_family, font_size) \in DOMAIN cache
    THEN [font |-> LoadDefault, cache |-> cache, loaded |-> <<>>, raised |-> FALSE]
    ELSE GetFontMiss(cache, CacheKey(font_family, font_size), font_size,
                     LoadFont(font_family, font_size))

\* _get_font answering a hit only when the entry is a loaded file, and
\* loading again when it is the built-in font
GetFontRetryingBuiltin(cache, font_family, font_size) ==
    IF /\ CacheKey(font_family, font_size) \in DOMAIN cache
       /\ cache[CacheKey(font_family, font_size)] # LoadDefault
    THEN [font |-> cache[CacheKey(font_family, font_size)], cache |-> cache,
          loaded |-> <<>>, raised |-> FALSE]
    ELSE GetFontMiss(cache, CacheKey(font_family, font_size), font_size,
                     LoadFont(font_family, font_size))

\* DesignRenderer._get_font: the font it returns, the cache it leaves, the
\* font files it loaded and whether it raised (it never does).
GetFont(cache, font_family, font_size) ==
    IF CacheKey(font_family, font_size) \in DOMAIN cache
    THEN [font |-> cache[CacheKey(font_family, font_size)], cache |-> cache,
          loaded |-> <<>>, raised |-> FALSE]
    ELSE GetFontMiss(cache, CacheKey(font_family, font_size), font_size,
                     LoadFont(font_family, font_size))


-----------------------------------------------------------------------------
(* Painting.  A render threads st = [ops, font_cache, loads]: the drawing  *)
(* operations applied to the raster so far, the font cache and the font    *)
(* files loaded so far.  A paint                                           *)
(* function returns st with raised: whether it ended by raising.  What     *)
(* was painted before an exception stays painted.                          *)

Returns(st) ==
    [ops |-> st.ops, font_cache |-> st.font_cache, loads |-> st.loads,
     dispatched |-> st.dispatched, raised |-> FALSE]
Raises(st) ==
    [ops |-> st.ops, font_cache |-> st.font_cache, loads |-> st.loads,
     dispatched |-> st.dispatched, raised |-> TRUE]
Paint(st, op) ==
    [ops |-> Append(st.ops, op), font_cache |-> st.font_cache, loads |-> st.loads,
     dispatched |-> st.dispatched]
State(r) ==
    [ops |-> r.ops, font_cache |-> r.font_cache, loads |-> r.loads,
     dispatched |-> r.dispatched]
\* The state a render starts in
StartState(cache) ==
    [ops |-> <<>>, font_cache |-> cache, loads |-> <<>>, dispatched |-> <<>>]
\* _render_object is called on the node at path: dispatched keeps the nodes
\* in the order of these calls
Dispatch(st, path) ==
    [ops |-> st.ops, font_cache |-> st.font_cache, loads |-> st.loads,
     dispatched |-> Append(st.dispatched, path)]

\* int(v) of a JSON value: the model's strings are never numerals
IntRaises(v) == ~IsNum(v)
\* a + b, a - b, a > 0 raise TypeError unless both are numbers
AllNum(vs) == \A v \in vs : IsNum(v)

\* The operations.  path is the place of the painted node in the document
\* (the indices from the stage down), kept to tell which node painted what.
FillOp(shape, box, ink, path) ==
    [kind |-> shape, part |-> "fill", box |-> box, ink |-> ink, width |-> 0,
     path |-> path]
OutlineOp(shape, box, ink, width, path) ==
    [kind |-> shape, part |-> "outline", box |-> box, ink |-> ink,
     width |-> width, path |-> path]
LineOp(box, ink, width, path) ==
    [kind |-> "line", part |-> "outline", box |-> box, ink |-> ink,
     width |-> width, path |-> path]
TextOp(xy, text, ink, font, path) ==
    [kind |-> "text", part |-> "fill", box |-> <<xy[1], xy[2], xy[1], xy[2]>>,
     ink |-> ink, width |-> 0, path |-> path, text |-> text, font |-> font]
PasteOp(box, src, path) ==
    [kind |-> "paste", part |-> "fill", box |-> box, ink |-> Black, width |-> 0,
     path |-> path, src |-> src]

\* Fill then outline of a shape with bounding box corners (the common body of
\* _render_rect, _render_circle and _render_ellipse).  geometry: the
\* attribute values the box is computed from; box: the box when they are
\* numbers.  The outline is drawn with width=int(stroke_width), and PIL draws
\* no outline of width 0.
DrawShape(shape, geometry, box, st, path, fill, stroke, stroke_width, fill_ink, stroke_ink) ==
    LET fillRaises == Truthy(fill) /\ (~AllNum(geometry) \/ ~fill_ink.ok)
        st1 == IF Truthy(fill) /\ ~fillRaises
               THEN Paint(st, FillOp(shape, box, fill_ink.rgb, path))
               ELSE st
        strokes == /\ Truthy(stroke) /\ IsNum(stroke_width) /\ Positive(stroke_width)
                   /\ stroke_width.num # 0
        strokeRaises ==
            /\ Truthy(stroke)
            /\ \/ ~IsNum(stroke_width)
               \/ Positive(stroke_width)
                    /\ (~AllNum(geometry) \/ ~stroke_ink.ok)
    IN IF fillRaises THEN Raises(st)
       ELSE IF strokeRaises THEN Raises(st1)
       ELSE IF strokes
            THEN Returns(Paint(st1, OutlineOp(shape, box, stroke_ink.rgb,
                                              stroke_width.num, path)))
       ELSE Returns(st1)

\* The attributes fill, stroke and strokeWidth, and the inks PIL makes of the
\* colours _parse_color returns for fill and stroke
RenderShape(shape, attrs, geometry, box, st, path) ==
    DrawShape(shape, geometry, box, st, path,
              Get(attrs, "fill", Null), Get(attrs, "stroke", Null),
              Get(attrs, "strokeWidth", Num(1)),
              Ink(ParseColor(Get(attrs, "fill", Null))),
              Ink(ParseColor(Get(attrs, "stroke", Null))))

\* _render_rect taking x, y for the centre, as _render_circle does
RenderRectCentred(attrs, st, path) ==
    IF ~IsDict(attrs) THEN Raises(st)
    ELSE LET x == Get(attrs, "x", Num(0))
             y == Get(attrs, "y", Num(0))
             width == Get(attrs, "width", Num(100))
             height == Get(attrs, "height", Num(100))
         IN RenderShape("rectangle", attrs, {x, y, width, height},
                        <<x.num - width.num, y.num - height.num,
                          x.num + width.num, y.num + height.num>>,
                        st, path)

\* DesignRenderer._render_rect
RenderRect(attrs, st, path) ==
    IF ~IsDict(attrs) THEN Raises(st)
    ELSE LET x == Get(attrs, "x", Num(0))
             y == Get(attrs, "y", Num(0))
             width == Get(attrs, "width", Num(100))
             height == Get(attrs, "height", Num(100))
         IN RenderShape("rectangle", attrs, {x, y, width, height},
                        <<x.num, y.num, x.num + width.num, y.num + height.num>>,
                        st, path)

\* DesignRenderer._render_circle
RenderCircle(attrs, st, path) ==
    IF ~IsDict(attrs) THEN Raises(st)
    ELSE LET x == Get(attrs, "x", Num(0))
             y == Get(attrs, "y", Num(0))
             radius == Get(attrs, "radius", Num(50))
         IN RenderShape("ellipse", attrs, {x, y, radius},
                        <<x.num - radius.num, y.num - radius.num,
                          x.num + radius.num, y.num + radius.num>>,
                        st, path)

\* DesignRenderer._render_ellipse
RenderEllipse(attrs, st, path) ==
    IF ~IsDict(attrs) THEN Raises(st)
    ELSE LET x == Get(attrs, "x", Num(0))
             y == Get(attrs, "y", Num(0))
             radius_x == Get(attrs, "radiusX", Num(50))
             radius_y == Get(attrs, "radiusY", Num(30))
         IN RenderShape("ellipse", attrs, {x, y, radius_x, radius_y},
                        <<x.num - radius_x.num, y.num - radius_y.num,
                          x.num + radius_x.num, y.num + radius_y.num>>,
                        st, path)


\* The loop of _render_line from segment start index i (0-based, step 2):
\* points[i + 3] raises IndexError when the list ends before it.
RECURSIVE RenderLineSegments(_, _, _, _, _, _)
RenderLineSegments(points, i, ink, width, st, path) ==
    IF i >= Len(points) - 2 THEN Returns(st)
    ELSE IF i + 4 > Len(points) THEN Raises(st)
    ELSE IF ~AllNum({points[i + 1], points[i + 2], points[i + 3], points[i + 4]})
         THEN Raises(st)
    ELSE RenderLineSegments(points, i + 2, ink, width,
             Paint(st, LineOp(<<points[i + 1].num, points[i + 2].num,
                                points[i + 3].num, points[i + 4].num>>,
                              ink, width, path)),
             path)

\* DesignRenderer._render_line
RenderLine(attrs, st, path) ==
    IF ~IsDict(attrs) THEN Raises(st)
    ELSE LET points == Get(attrs, "points", List(<<>>))
             stroke == Get(attrs, "stroke", Str("#000000"))
             stroke_width == Get(attrs, "strokeWidth", Num(1))
             stroke_color == ParseColor(stroke)
         IN IF ~IsList(points) THEN Raises(st)               \* len() of a non-list
            ELSE IF Len(points.list) < 4 THEN Returns(st)
            ELSE IF IntRaises(stroke_width) \/ ~Ink(stroke_color).ok THEN Raises(st)
            ELSE RenderLineSegments(points.list, 0, Ink(stroke_color).rgb,
                                    stroke_width.num, st, path)

\* What a loader gives: img, whether it is an image (TRUE) or None (FALSE);
\* raised, whether the loader ended by raising; opened, the files it opened
Loaded(opened) == [img |-> TRUE, raised |-> FALSE, opened |-> opened]
LoadsNone == [img |-> FALSE, raised |-> FALSE, opened |-> <<>>]
LoadRaises(opened) == [img |-> FALSE, raised |-> TRUE, opened |-> opened]

\* except Exception as e: logger.error(...); return None
Handled(l) == IF l.raised THEN [img |-> FALSE, raised |-> FALSE, opened |-> l.opened] ELSE l

\* The data URLs of the model whose payload decodes to an image
DecodableDataUrls == {"data:,AA"}
Base64Faults == {"none", "decode", "content"}

\* The try block of _load_base64_image: split(',', 1) into two raises
\* ValueError when there is no comma, b64decode raises on bad base64 (fault
\* "decode"), Image.open on bytes that are no image (fault "content")
TryLoadBase64(data_url, fault) ==
    IF Len(SplitOn(Chars(data_url), ",")) < 2 THEN LoadRaises(<<>>)
    ELSE IF fault # "none" THEN LoadRaises(<<>>)
    ELSE Loaded(<<>>)

Base64Loader(data_url, fault) == Handled(TryLoadBase64(data_url, fault))

\* DesignRenderer._load_base64_image
LoadBase64Image(data_url) ==
    Base64Loader(data_url, IF data_url \in DecodableDataUrls THEN "none" ELSE "decode")

RemoteFaults == {"none", "timeout", "status", "content"}

\* The try block of _load_remote_image: requests.get raises on a timeout or
\* a failed connection, raise_for_status on a response that is not 2xx,
\* Image.open on content that is no image
TryLoadRemote(url, fault) ==
    IF fault # "none" THEN LoadRaises(<<>>) ELSE Loaded(<<>>)

RemoteLoader(url, fault) == Handled(TryLoadRemote(url, fault))

\* DesignRenderer._load_remote_image
LoadRemoteImage(url) ==
    RemoteLoader(url, IF url \in reachable THEN "none" ELSE "timeout")

\* os.path.isabs(path) on a posix system
IsAbs(cs) == StartsWith(cs, <<"/">>)
\* '..' in path
HasDotDot(cs) == \E i \in 1..(Len(cs) - 1) : cs[i] = "." /\ cs[i + 1] = "."

\* The check of _load_local_image without its '..' test
SuspiciousPathAbsOnly(path) == IsAbs(Chars(path))

\* os.path.isabs(path) or '..' in path
SuspiciousPath(path) == IsAbs(Chars(path)) \/ HasDotDot(Chars(path))

\* settings.MEDIA_ROOT, and os.path.join(settings.MEDIA_ROOT, path): a path
\* that is absolute replaces the root
MediaRoot == <<"/","m">>
JoinMediaRoot(cs) == IF IsAbs(cs) THEN cs ELSE MediaRoot \o <<"/">> \o cs

LocalFaults == {"none", "missing", "content"}

\* The try block of _load_local_image: a suspicious path and a file that does
\* not exist (fault "missing") return None, Image.open raises on a file that
\* is no image (fault "content")
TryLoadLocal(path, fault) ==
    IF SuspiciousPath(path) THEN LoadsNone
    ELSE IF fault = "missing" THEN LoadsNone
    ELSE IF fault = "content" THEN LoadRaises(<<JoinMediaRoot(Chars(path))>>)
    ELSE Loaded(<<JoinMediaRoot(Chars(path))>>)

LocalLoader(path, fault) == Handled(TryLoadLocal(path, fault))

\* DesignRenderer._load_local_image: the file must exist under MEDIA_ROOT
LoadLocalImage(path) ==
    LocalLoader(path, IF path \in reachable THEN "none" ELSE "missing")

\* What the loader named gave
Via(loader, l) ==
    [loader |-> loader, img |-> l.img, raised |-> l.raised, opened |-> l.opened]

\* The dispatch of _render_image on the shape of the source
LoadImage(image_src) ==
    IF StartsWith(Chars(image_src), <<"d","a","t","a",":">>)
    THEN Via("base64", LoadBase64Image(image_src))
    ELSE IF StartsWith(Chars(image_src), <<"h","t","t","p">>)
    THEN Via("remote", LoadRemoteImage(image_src))
    ELSE Via("local", LoadLocalImage(image_src))

\* The placeholder of _render_image's except branch
RenderPlaceholder(attrs, st, path) ==
    LET x == Get(attrs, "x", Num(0))
        y == Get(attrs, "y", Num(0))
        width == Get(attrs, "width", Num(100))
        height == Get(attrs, "height", Num(100))
    IN IF ~AllNum({x, y, width, height}) THEN Raises(st)
       ELSE Returns(Paint(
                Paint(st, OutlineOp("rectangle",
                                    <<x.num, y.num, x.num + width.num, y.num + height.num>>,
                                    Ink(Str("#cccccc")).rgb, 1, path)),
                TextOp(<<x.num + 5, y.num + 5>>, "Image", Ink(Str("#999999")).rgb,
                       LoadDefault, path)))

\* DesignRenderer._render_image
RenderImage(attrs, st, path) ==
    IF ~IsDict(attrs) THEN Raises(st)        \* the handler then reads x: NameError
    ELSE LET x == Get(attrs, "x", Num(0))
             y == Get(attrs, "y", Num(0))
             width == Get(attrs, "width", Num(100))
             height == Get(attrs, "height", Num(100))
             image_src == Get(attrs, "src", Str(""))
             img_data == LoadImage(image_src.str)
         IN IF ~Truthy(image_src) THEN Returns(st)
            ELSE IF ~IsStr(image_src) THEN RenderPlaceholder(attrs, st, path)
            ELSE IF img_data.raised THEN RenderPlaceholder(attrs, st, path)
            ELSE IF ~img_data.img THEN Returns(st)
            ELSE IF IntRaises(width) \/ IntRaises(height)
                 THEN RenderPlaceholder(attrs, st, path)
            ELSE IF width.num <= 0 \/ height.num <= 0     \* resize: ValueError
                 THEN RenderPlaceholder(attrs, st, path)
            ELSE IF IntRaises(x) \/ IntRaises(y)
                 THEN RenderPlaceholder(attrs, st, path)
            ELSE Returns(Paint(st, PasteOp(<<x.num, y.num, x.num + width.num - 1,
                                             y.num + height.num - 1>>,
                                           image_src.str, path)))

\* ImageDraw.textbbox((0, 0), text, font): the width of the text's box
TextWidth(text, font) ==
    Len(Chars(text)) * (IF font.kind = "truetype" THEN font.size \div 2 ELSE 6)

\* The body of _render_text once the attributes are read: got is what
\* _get_font gave, color_ink and fill_ink the inks PIL makes of the parsed
\* colour (the try block) and of the raw fill (the handler)
DrawText(text, x, y, font_size, align, got, color_ink, fill_ink, st, path) ==
    LET st1 == [ops |-> st.ops, font_cache |-> got.cache,
                loads |-> st.loads \o got.loaded, dispatched |-> st.dispatched]
        text_width == TextWidth(text.str, got.font)
        x1 == IF align = Str("center") THEN x.num - (text_width \div 2)
              ELSE IF align = Str("right") THEN x.num - text_width
              ELSE x.num
        \* textbbox, the shift of x or draw.text raised
        tryRaises == got.raised \/ ~IsStr(text) \/ ~AllNum({x, y}) \/ ~color_ink.ok
        \* the handler's draw.text((x, y), text, fill=fill)
        handlerRaises == ~IsStr(text) \/ ~AllNum({x, y}) \/ ~fill_ink.ok
    IN IF ~Truthy(text) THEN Returns(st)
       ELSE IF ~IsNum(font_size) THEN Raises(st)
       ELSE IF ~tryRaises
            THEN Returns(Paint(st1, TextOp(<<x1, y.num>>, text.str, color_ink.rgb,
                                           got.font, path)))
       ELSE IF handlerRaises THEN Raises(st1)
       ELSE Returns(Paint(st1, TextOp(<<x.num, y.num>>, text.str, fill_ink.rgb,
                                      LoadDefault, path)))

\* DesignRenderer._render_text
RenderText(attrs, dpi, st, path) ==
    IF ~IsDict(attrs) THEN Raises(st)
    ELSE DrawText(Get(attrs, "text", Str("")),
                  Get(attrs, "x", Num(0)), Get(attrs, "y", Num(0)),
                  Get(attrs, "fontSize", Num(16)),
                  Get(attrs, "align", Str("left")),
                  GetFont(st.font_cache, Get(attrs, "fontFamily", Str("Arial")),
                          (Get(attrs, "fontSize", Num(16)).num * dpi) \div 72),
                  Ink(ParseColor(Get(attrs, "fill", Str("#000000")))),
                  Ink(Get(attrs, "fill", Str("#000000"))),
                  st, path)


-----------------------------------------------------------------------------
(* Traversal *)

\* What "for child in children" iterates over when children is no list:
\* None and numbers raise TypeError; a string gives its characters and a dict
\* its keys, on each of which .get raises AttributeError.
IterationRaises(children) ==
    ~IsList(children) /\ (IsNull(children) \/ IsNum(children) \/ Truthy(children))

\* DesignRenderer._render_object, with the loop over a Group's children from
\* index i: the first child that raises ends the loop and the Group.
RECURSIVE RenderObject(_, _, _, _), RenderGroupChildren(_, _, _, _, _)
RECURSIVE AfterGroupChild(_, _, _, _, _)

\* _render_object with a last branch that raises on a className it does not
\* know
RenderObjectUnknownRaises(obj_data, dpi, st, path) ==
    IF ~IsDict(obj_data) THEN Raises(st)
    ELSE LET class_name == Get(obj_data, "className", "")
             attrs == Get(obj_data, "attrs", EmptyDict)
             children == Get(obj_data, "children", List(<<>>))
         IN CASE class_name = "Text" -> RenderText(attrs, dpi, st, path)
              [] class_name = "Rect" -> RenderRect(attrs, st, path)
              [] class_name = "Circle" -> RenderCircle(attrs, st, path)
              [] class_name = "Ellipse" -> RenderEllipse(attrs, st, path)
              [] class_name = "Line" -> RenderLine(attrs, st, path)
              [] class_name = "Image" -> RenderImage(attrs, st, path)
              [] class_name = "Group" ->
                    IF IterationRaises(children) THEN Raises(st)
                    ELSE IF ~IsList(children) THEN Returns(st)
                    ELSE RenderGroupChildren(children.list, 1, dpi, st, path)
              [] OTHER -> Raises(st)

RenderObject(obj_data, dpi, st, path) ==
    IF ~IsDict(obj_data) THEN Raises(st)
    ELSE LET class_name == Get(obj_data, "className", "")
             attrs == Get(obj_data, "attrs", EmptyDict)
             children == Get(obj_data, "children", List(<<>>))
         IN CASE class_name = "Text" -> RenderText(attrs, dpi, st, path)
              [] class_name = "Rect" -> RenderRect(attrs, st, path)
              [] class_name = "Circle" -> RenderCircle(attrs, st, path)
              [] class_name = "Ellipse" -> RenderEllipse(attrs, st, path)
              [] class_name = "Line" -> RenderLine(attrs, st, path)
              [] class_name = "Image" -> RenderImage(attrs, st, path)
              [] class_name = "Group" ->
                    IF IterationRaises(children) THEN Raises(st)
                    ELSE IF ~IsList(children) THEN Returns(st)
                    ELSE RenderGroupChildren(children.list, 1, dpi, st, path)
              [] OTHER -> Returns(st)

\* The Group loop walking the children from the last to the first
RenderGroupChildrenReversed(children, i, dpi, st, path) ==
    IF i > Len(children) THEN Returns(st)
    ELSE AfterGroupChild(children, i, dpi,
                         RenderObject(children[Len(children) + 1 - i], dpi,
                                      Dispatch(st, Append(path, Len(children) + 1 - i)),
                                      Append(path, Len(children) + 1 - i)),
                         path)

\* The Group loop of _render_object from child i: no handler, an exception
\* of a child leaves the loop
RenderGroupChildren(children, i, dpi, st, path) ==
    IF i > Len(children) THEN Returns(st)
    ELSE AfterGroupChild(children, i, dpi,
                         RenderObject(children[i], dpi, Dispatch(st, Append(path, i)),
                                      Append(path, i)),
                         path)

\* r: how painting child i ended
AfterGroupChild(children, i, dpi, r, path) ==
    IF r.raised THEN r
    ELSE RenderGroupChildren(children, i + 1, dpi, State(r), path)

\* The loop of _render_layer walking the children from the last to the first
RECURSIVE RenderLayerChildrenReversed(_, _, _, _, _), AfterLayerChildReversed(_, _, _, _, _)
RenderLayerChildrenReversed(children, i, dpi, st, path) ==
    IF i > Len(children) THEN Returns(st)
    ELSE AfterLayerChildReversed(
             children, i, dpi,
             RenderObject(children[Len(children) + 1 - i], dpi,
                          Dispatch(st, Append(path, Len(children) + 1 - i)),
                          Append(path, Len(children) + 1 - i)),
             path)

AfterLayerChildReversed(children, i, dpi, r, path) ==
    IF r.raised /\ ~IsDict(children[Len(children) + 1 - i]) THEN r
    ELSE RenderLayerChildrenReversed(children, i + 1, dpi, State(r), path)

\* The loop of _render_layer from child i: an exception of _render_object is
\* caught and the loop continues, unless the handler's own child.get raises
\* (the child is no dict), which leaves the loop and the layer.
RECURSIVE RenderLayerChildren(_, _, _, _, _), AfterLayerChild(_, _, _, _, _)
RenderLayerChildren(children, i, dpi, st, path) ==
    IF i > Len(children) THEN Returns(st)
    ELSE AfterLayerChild(children, i, dpi,
                         RenderObject(children[i], dpi, Dispatch(st, Append(path, i)),
                                      Append(path, i)),
                         path)

\* r: how _render_object on child i ended
AfterLayerChild(children, i, dpi, r, path) ==
    IF r.raised /\ ~IsDict(children[i]) THEN r
    ELSE RenderLayerChildren(children, i + 1, dpi, State(r), path)

\* DesignRenderer._render_layer
RenderLayer(layer_data, dpi, st, path) ==
    IF ~IsDict(layer_data) THEN Raises(st)
    ELSE LET children == Get(layer_data, "children", List(<<>>))
         IN IF IterationRaises(children) THEN Raises(st)
            ELSE IF ~IsList(children) THEN Returns(st)
            ELSE RenderLayerChildren(children.list, 1, dpi, st, path)

\* The loop over the stage's layers from layer i
RECURSIVE RenderLayers(_, _, _, _), AfterLayer(_, _, _, _)
RenderLayers(layers, i, dpi, st) ==
    IF i > Len(layers) THEN Returns(st)
    ELSE AfterLayer(layers, i, dpi, RenderLayer(layers[i], dpi, st, <<i>>))

\* The loop going on with the next layer whatever happened in layer i
AfterLayerContinuing(layers, i, dpi, r) ==
    RenderLayers(layers, i + 1, dpi, State(r))

\* r: how _render_layer on layer i ended
AfterLayer(layers, i, dpi, r) ==
    IF r.raised THEN r
    ELSE RenderLayers(layers, i + 1, dpi, State(r))

\* json.loads on the JSON texts of the model: the value, or a raise
JsonTexts == {"{bad", "[]", "{\"children\": []}"}
JsonLoadsRaises(text) == text = "{bad"
JsonLoads(text) ==
    CASE text = "[]" -> List(<<>>)
      [] text = "{\"children\": []}" -> [children |-> List(<<>>)]

\* The try block of _render_design_to_image: parse, then paint the layers
RenderStage(data, dpi, cache) ==
    LET st == StartState(cache)
        parseRaises == IsStr(data) /\ JsonLoadsRaises(data.str)
        stage_data == IF IsStr(data) THEN JsonLoads(data.str) ELSE data
        layers == Get(stage_data, "children", List(<<>>))
    IN IF parseRaises THEN Raises(st)
       ELSE IF ~IsDict(stage_data) THEN Raises(st)
       ELSE IF IterationRaises(layers) THEN Raises(st)
       ELSE IF ~IsList(layers) THEN Returns(st)
       ELSE RenderLayers(layers.list, 1, dpi, st)

\* The raster (its size and the operations painted on its white ground) and
\* the font cache that the try block, ended as r, leaves
Rendered(r, width, height) ==
    [img |-> [width |-> width, height |-> height, ground |-> White, ops |-> r.ops],
     font_cache |-> r.font_cache, loads |-> r.loads, dispatched |-> r.dispatched,
     swallowed |-> r.raised,
     raised |-> FALSE]

\* The same, with the exception of the try block raised again
Reraised(r, width, height) ==
    [img |-> [width |-> width, height |-> height, ground |-> White, ops |-> r.ops],
     font_cache |-> r.font_cache, loads |-> r.loads, dispatched |-> r.dispatched,
     swallowed |-> FALSE,
     raised |-> r.raised]

RenderDesignToImageReraising(data, width, height, dpi, cache) ==
    Reraised(RenderStage(data, dpi, cache), width, height)

\* DesignRenderer._render_design_to_image: the raster, the font cache it
\* leaves, and whether an exception was swallowed by its except branch.  It
\* never raises.
RenderDesignToImage(data, width, height, dpi, cache) ==
    Rendered(RenderStage(data, dpi, cache), width, height)


-----------------------------------------------------------------------------
(* Reading a raster and a document *)

\* Whether operation op changes pixel (px, py).  PIL's boxes include both
\* corners.  Rectangles and pastes are exact; an ellipse is its interior by
\* the ellipse equation, a line the pixels on the segment, a text its origin.
Covers(op, px, py) ==
    LET x0 == op.box[1]
        y0 == op.box[2]
        x1 == op.box[3]
        y1 == op.box[4]
        inBox == x0 <= px /\ px <= x1 /\ y0 <= py /\ py <= y1
        onEdge == \/ px - x0 < op.width \/ x1 - px < op.width
                  \/ py - y0 < op.width \/ y1 - py < op.width
        rx == x1 - x0
        ry == y1 - y0
        \* doubled coordinates relative to the centre, to stay in integers
        dx == 2 * px - (x0 + x1)
        dy == 2 * py - (y0 + y1)
        inEllipse == dx * dx * ry * ry + dy * dy * rx * rx <= rx * rx * ry * ry
    IN CASE op.kind = "rectangle" /\ op.part = "fill" -> inBox
         [] op.kind = "rectangle" /\ op.part = "outline" -> inBox /\ onEdge
         [] op.kind = "paste" -> inBox
         [] op.kind = "ellipse" /\ op.part = "fill" -> inBox /\ inEllipse
         [] op.kind = "ellipse" /\ op.part = "outline" ->
                inBox /\ inEllipse /\ onEdge
         [] op.kind = "line" ->
                /\ (IF x0 <= x1 THEN x0 <= px /\ px <= x1 ELSE x1 <= px /\ px <= x0)
                /\ (IF y0 <= y1 THEN y0 <= py /\ py <= y1 ELSE y1 <= py /\ py <= y0)
                /\ (px - x0) * (y1 - y0) = (py - y0) * (x1 - x0)
         [] op.kind = "text" -> px = x0 /\ py = y0

\* The operations that cover a pixel, and the last of them (0 when none)
Hits(img, px, py) == {i \in 1..Len(img.ops) : Covers(img.ops[i], px, py)}
TopOp(img, px, py) ==
    IF Hits(img, px, py) = {} THEN 0
    ELSE CHOOSE i \in Hits(img, px, py) : \A j \in Hits(img, px, py) : j <= i

\* The colour of pixel (px, py) of a raster: the ink of the last operation
\* that covers it, the ground when none does
PixelAt(img, px, py) ==
    IF TopOp(img, px, py) = 0 THEN img.ground ELSE img.ops[TopOp(img, px, py)].ink

\* The document as the renderer reads it
StageOf(data) ==
    IF IsStr(data) /\ ~JsonLoadsRaises(data.str) THEN JsonLoads(data.str) ELSE data

ListOf(v) == IF IsList(v) THEN v.list ELSE <<>>
ChildrenOf(v) == IF IsDict(v) THEN ListOf(Get(v, "children", List(<<>>))) ELSE <<>>

\* The nodes below node v at path: v itself, and below a Group its children.
\* Each is <<path, node>>.
RECURSIVE NodesUnder(_, _)
NodesUnder(v, path) ==
    {<<path, v>>} \cup
      IF IsDict(v) /\ Get(v, "className", "") = "Group"
      THEN UNION {NodesUnder(ChildrenOf(v)[i], Append(path, i)) :
                      i \in 1..Len(ChildrenOf(v))}
      ELSE {}

\* Every node of a document: the children of its layers and all below them
AllNodes(data) ==
    LET layers == ChildrenOf(StageOf(data))
    IN UNION {UNION {NodesUnder(ChildrenOf(layers[i])[j], <<i, j>>) :
                         j \in 1..Len(ChildrenOf(layers[i]))} :
                  i \in 1..Len(layers)}

HasKind(data, kind) ==
    \E n \in AllNodes(data) : IsDict(n[2]) /\ Get(n[2], "className", "") = kind

-----------------------------------------------------------------------------
(* Bounds and the documents the model renders *)

MaxCalls == 2             \* calls made on the renderer in one behaviour
MaxChildren == 2          \* children of a layer
MaxGroupChildren == 2     \* children of a Group
MaxThreads == 2           \* threads that share the renderer
MaxFontCalls == 2         \* calls of _get_font a thread makes
MaxRenders == 1           \* renders a thread makes
MaxRequests == 1          \* requests made to the PricingService

\* All sequences over S of length lo..hi
SeqsOf(S, lo, hi) == UNION {[1..n -> S] : n \in lo..hi}

Node(class_name, attrs) == [className |-> class_name, attrs |-> attrs]
Rect(x, y, w, h, fill) ==
    Node("Rect", [x |-> Num(x), y |-> Num(y), width |-> Num(w), height |-> Num(h),
                  fill |-> fill])
Text(x, y, family, size, fill) ==
    Node("Text", [x |-> Num(x), y |-> Num(y), text |-> Str("Hi"),
                  fontFamily |-> family, fontSize |-> Num(size), fill |-> fill])
Image(x, y, w, h, src) ==
    Node("Image", [x |-> Num(x), y |-> Num(y), width |-> Num(w), height |-> Num(h),
                   src |-> Str(src)])
Group(children) ==
    [className |-> "Group", attrs |-> EmptyDict, children |-> List(children)]
Layer(children) ==
    [className |-> "Layer", attrs |-> EmptyDict, children |-> List(children)]
Stage(layers) ==
    [className |-> "Stage", attrs |-> [width |-> Num(100), height |-> Num(100)],
     children |-> List(layers)]
StageOn(background, layers) ==
    [className |-> "Stage", attrs |-> [width |-> Num(100), height |-> Num(100)],
     background |-> Str(background), children |-> List(layers)]

RectRed == Rect(10, 10, 30, 20, Str("#ff0000"))
RectBlue == Rect(20, 15, 30, 20, Str("rgb(0,0,255)"))
RectMalformedHex == Rect(30, 30, 10, 10, Str("#zzz"))
RectNonNumericX ==
    Node("Rect", [x |-> Str("foo"), y |-> Num(30), width |-> Num(10),
                  height |-> Num(10), fill |-> Str("#ff0000")])
RectStroked ==
    Node("Rect", [x |-> Num(50), y |-> Num(50), width |-> Num(20), height |-> Num(20),
                  fill |-> Str("cyan"), stroke |-> Str("red"), strokeWidth |-> Num(2)])
RectThinStroke ==
    Node("Rect", [x |-> Num(50), y |-> Num(50), width |-> Num(20), height |-> Num(20),
                  fill |-> Str("cyan"), stroke |-> Str("red"), strokeWidth |-> NumHalf(0)])
CircleOutline ==
    Node("Circle", [x |-> Num(30), y |-> Num(30), radius |-> Num(10),
                    stroke |-> Str("red"), strokeWidth |-> Num(0)])
\* Lines of 1, 2, 3 and 2 complete points: 2, 5, 6 and 5 coordinates
LineOf(coordinates) ==
    Node("Line", [points |-> List([i \in 1..Len(coordinates) |-> Num(coordinates[i])]),
                  stroke |-> Str("#000000"), strokeWidth |-> Num(2)])
LineOnePoint == LineOf(<<10, 10>>)
LineOddLength == LineOf(<<0, 0, 50, 50, 70>>)
LineThreePoints == LineOf(<<0, 0, 50, 50, 70, 20>>)
NotAnObject == Num(5)
UnknownKind == Node("Star", [x |-> Num(1), y |-> Num(1)])
TextArial == Text(10, 60, Str("Arial"), 16, Str("#000000"))
TextUnknownFamily == Text(10, 80, Str("Nope"), 16, Str("red"))
TextHelvetica == Text(10, 40, Str("Helvetica"), 16, Str("#000000"))
ImageRemote == Image(5, 5, 40, 30, "http://h/a")
LineSeg ==
    Node("Line", [points |-> List(<<Num(0), Num(0), Num(50), Num(50)>>),
                  stroke |-> Str("#000000"), strokeWidth |-> Num(2)])
CircleGreen ==
    Node("Circle", [x |-> Num(70), y |-> Num(30), radius |-> Num(10),
                    fill |-> Str("rgba(0,255,0,1)")])
EllipseWhite ==
    Node("Ellipse", [x |-> Num(70), y |-> Num(70), radiusX |-> Num(10),
                     radiusY |-> Num(5), fill |-> Str("white"), stroke |-> Str("#00f")])

\* Colour values a node's fill can carry: hex, named, rgb(), names PIL knows
\* and the code's list does not, unknown names, malformed hex and rgb(,
\* empty, and a value that is no string
ColorInputs ==
    {Str("#ff0000"), Str("#00f"), Str("red"), Str("cyan"), Str("rgb(0,0,255)"),
     Str("rgba(0,255,0,1)"), Str("foo"), Str("#zzz"), Str("rgb(1,2"), Str(""),
     Num(5)}

FontFamilies == {Str("Arial"), Str("Times"), Str("Nope"), Num(7), List(<<>>)}

LeafPool == {RectRed, RectBlue, RectMalformedHex, NotAnObject}
GroupPool == {RectRed, RectBlue, RectNonNumericX}

\* One layer of leaves
FlatDesigns == {Stage(<<Layer(cs)>>) : cs \in SeqsOf(LeafPool, 0, MaxChildren)}

\* One layer holding a Group and a sibling after it
GroupDesigns ==
    {Stage(<<Layer(<<Group(gs), RectStroked>>)>>) :
        gs \in SeqsOf(GroupPool, 1, MaxGroupChildren)}

\* One layer, one node, every colour
ColorDesigns ==
    {Stage(<<Layer(<<Rect(10, 10, 30, 20, c), RectBlue>>)>>) : c \in ColorInputs}
    \cup {Stage(<<Layer(<<Text(10, 60, Str("Arial"), 16, c), RectBlue>>)>>) :
              c \in {Str("cyan"), Str("#zzz"), Num(5)}}
\* Text in every font family
FontDesigns ==
    {Stage(<<Layer(<<Text(10, 60, f, 16, Str("red")), EllipseWhite>>)>>) :
        f \in FontFamilies}
    \cup {Stage(<<Layer(<<TextArial, TextUnknownFamily, TextArial>>)>>),
          Stage(<<Layer(<<TextArial, TextHelvetica>>)>>)}

\* Scenario A as the spec words it (the Rect is a top-level node) and with
\* the Rect inside a layer
ScenarioATopLevel == StageOn("#ffffff", <<RectRed>>)
ScenarioAInLayer == StageOn("#ffffff", <<Layer(<<RectRed>>)>>)
\* Scenario C: a Group of two overlapping Rects
ScenarioC == Stage(<<Layer(<<Group(<<RectRed, RectBlue>>)>>)>>)
\* Scenario D: a node of an unrecognized kind between two Rects
ScenarioD == Stage(<<Layer(<<RectRed, UnknownKind, RectBlue>>)>>)

\* Scenario D with the three nodes inside a Group
ScenarioDInGroup == Stage(<<Layer(<<Group(<<RectRed, UnknownKind, RectBlue>>)>>)>>)

\* Scenes with no node, with and without layers, on several backgrounds
EmptyDesigns ==
    {StageOn(b, ls) : b \in {"#ffffff", "#f97316"}, ls \in {<<>>, <<Layer(<<>>)>>}}

\* Documents that are structurally invalid
InvalidDesigns ==
    { Str("{bad"), Str("[]"), Num(3), Null,
      [className |-> "Stage", children |-> Num(3)],
      [className |-> "Stage", children |-> [a |-> Num(1)]],
      Stage(<<Layer(<<RectRed>>), NotAnObject, Layer(<<RectBlue>>)>>),
      Stage(<<[className |-> "Layer", children |-> Str("foo")], Layer(<<RectBlue>>)>>),
      Stage(<<Layer(<<RectRed, NotAnObject, RectBlue>>), Layer(<<RectStroked>>)>>) }

OtherDesigns ==
    { Str("{\"children\": []}"), ScenarioATopLevel, ScenarioAInLayer, ScenarioC,
      ScenarioD, ScenarioDInGroup,
      Stage(<<Layer(<<LineOnePoint, LineThreePoints, LineOddLength, RectRed>>)>>),
      Stage(<<Layer(<<RectThinStroke, CircleOutline, EllipseWhite, RectStroked>>)>>),
      Stage(<<Layer(<<TextArial, ImageRemote, LineSeg, CircleGreen>>)>>),
      Stage(<<Layer(<<RectRed>>), Layer(<<RectBlue, ImageRemote>>)>>),
      Stage(<<Layer(<<Image(5, 5, 40, 30, "data:,AA"), Image(5, 5, 40, 30, "data:AA"),
                      Image(50, 5, 0, 30, "http://h/a"), Image(5, 50, 40, 30, "a.png"),
                      Image(5, 50, 40, 30, "../s"), RectBlue>>)>>) }

\* Groups inside Groups, d deep, with a leaf before and after each
MaxDepth == 3
RECURSIVE Nested(_)
Nested(d) ==
    IF d = 0 THEN RectBlue ELSE Group(<<RectRed, Nested(d - 1), CircleGreen>>)
NestedDesigns ==
    {Stage(<<Layer(<<Nested(d), RectStroked>>)>>) : d \in 2..MaxDepth}
        \cup {Stage(<<Layer(<<Group(<<Group(<<RectNonNumericX, RectRed>>), RectRed>>),
                              RectBlue>>)>>)}

Designs ==
    FlatDesigns \cup GroupDesigns \cup ColorDesigns \cup FontDesigns
        \cup EmptyDesigns \cup InvalidDesigns \cup OtherDesigns \cup NestedDesigns

\* The font files that may exist, and the image sources that may load
FontFiles == {"arial.ttf", "/usr/share/fonts/truetype/dejavu/DejaVuSans.ttf"}
ImageSources == {"http://h/a", "a.png"}

PngSizes == {<<100, 100>>}
PdfSizesMm == {<<89, 54>>}
Dpis == {72, 300}
PdfDpis == {300}
EncodeFaults == {"none", "encode"}
PdfFaults == {"none", "encode", "draw", "save"}
\* What export_design_api is asked for (its defaults)
ApiSizesMm == {<<89, 54>>}
ApiDpis == {300}
\* The threads that call _get_font on the shared design_renderer
Threads == 1..MaxThreads

-----------------------------------------------------------------------------
(* Exporters.  fault names the step of the call at which the environment   *)
(* fails (an encoder or I/O error), "none" when it does not.               *)

NoImage == [width |-> 0, height |-> 0, ground |-> White, ops |-> <<>>]

\* What a call put into the PDF canvas: the number of pages, the page size
\* and the box the raster is drawn in, in points (see MmToPoints)
NoPdf ==
    [pages |-> 0, pagesize |-> <<<<0, 0>>, <<0, 0>>>>,
     image |-> [x |-> 0, y |-> 0, width |-> <<0, 0>>, height |-> <<0, 0>>]]

NoOutcome ==
    [op |-> "none", status |-> "none", format |-> "none", img |-> NoImage,
     width |-> 0, height |-> 0, dpi |-> 0, pdf |-> NoPdf, fault |-> "none",
     swallowed |-> FALSE, temp |-> 0, dispatched |-> <<>>]

\* round(mm * dpi / 25.4): to the nearest integer, a half to the even one
MmToPxRound(mm_, dpi) ==
    LET q == (mm_ * dpi * 10) \div 254
        r == (mm_ * dpi * 10) % 254
    IN IF 2 * r < 254 THEN q
       ELSE IF 2 * r > 254 THEN q + 1
       ELSE IF q % 2 = 0 THEN q ELSE q + 1

\* math.ceil(mm * dpi / 25.4)
MmToPxCeil(mm_, dpi) == (mm_ * dpi * 10 + 253) \div 254

\* int(mm * dpi / 25.4)
MmToPxInt(mm_, dpi) == (mm_ * dpi * 10) \div 254

\* mm * 2.834645669 points, as <<millionths of a point, billionths on top>>
PointsPerMmMicro == 2834645
PointsPerMmNano == 669
\* mm * 2.834645 points
MmToPointsShort(mm_) == <<mm_ * 2834645, 0>>

MmToPoints(mm_) == <<mm_ * PointsPerMmMicro, mm_ * PointsPerMmNano>>

PreviewWidth == 400
PreviewHeight == 300
PreviewDpi == 72

\* reportlab: Canvas(pagesize=(width_points, height_points)), drawImage(path,
\* 0, 0, width_points, height_points), save() (which ends the one page that
\* has content)
PdfCanvas(width_points, height_points) ==
    [pages |-> 1, pagesize |-> <<width_points, height_points>>,
     image |-> [x |-> 0, y |-> 0, width |-> width_points, height |-> height_points]]

\* The end of an exporter whose handler swallows the failure of the encoder
\* or of the PDF steps and returns what the buffer holds
FinishSwallowing(op, format, r, width, height, dpi, pdf, fault, temp) ==
    /\ calls' = calls + 1
    /\ font_cache' = r.font_cache
    /\ font_loads' = font_loads \o r.loads
    /\ outcome' =
         [op |-> op,
          status |-> IF r.raised THEN "raised" ELSE "returned",
          format |-> format, img |-> r.img, width |-> width, height |-> height,
          dpi |-> dpi,
          pdf |-> IF r.raised THEN NoPdf ELSE pdf,
          fault |-> fault, swallowed |-> r.swallowed, dispatched |-> r.dispatched,
          temp |-> IF r.raised THEN 0 ELSE temp]

\* The end of a call that rasterized r and then encoded (or failed to): the
\* renderer keeps the font cache, the caller gets the outcome.  The handler
\* of each public method logs and raises again.  temp is the temporary file
\* the call made, 0 for none.
Finish(op, format, r, width, height, dpi, pdf, fault, temp) ==
    /\ calls' = calls + 1
    /\ font_cache' = r.font_cache
    /\ font_loads' = font_loads \o r.loads
    /\ outcome' =
         [op |-> op,
          status |-> IF r.raised \/ fault # "none" THEN "raised" ELSE "returned",
          format |-> format, img |-> r.img, width |-> width, height |-> height,
          dpi |-> dpi,
          pdf |-> IF r.raised \/ fault # "none" THEN NoPdf ELSE pdf,
          fault |-> fault, swallowed |-> r.swallowed, dispatched |-> r.dispatched,
          temp |-> IF r.raised THEN 0 ELSE temp]

\* DesignRenderer.generate_preview(design_data) with its default size
GeneratePreview(fault) ==
    /\ calls < MaxCalls
    /\ Finish("generate_preview", "JPEG",
              RenderDesignToImage(design_data, PreviewWidth, PreviewHeight,
                                  PreviewDpi, font_cache),
              PreviewWidth, PreviewHeight, PreviewDpi, NoPdf, fault, 0)
    /\ UNCHANGED <<app_vars, design_data, disk, reachable, default_font_path, temp_files,
                   threads>>

\* DesignRenderer.export_to_png
ExportToPng(width, height, dpi, fault) ==
    /\ calls < MaxCalls
    /\ Finish("export_to_png", "PNG",
              RenderDesignToImage(design_data, width, height, dpi, font_cache),
              width, height, dpi, NoPdf, fault, 0)
    /\ UNCHANGED <<app_vars, design_data, disk, reachable, default_font_path, temp_files,
                   threads>>

\* The PNG branch of export_design_api: the size in mm is converted to
\* pixels and handed to export_to_png
ExportDesignApiPng(width_mm, height_mm, dpi, fault) ==
    ExportToPng(MmToPxInt(width_mm, dpi), MmToPxInt(height_mm, dpi), dpi, fault)

\* DesignRenderer.export_to_pdf.  The temporary file is created with
\* delete=False: a failure of img.save inside the with block leaves it, while
\* a failure of drawImage or save reaches the handler that unlinks it.
ExportToPdf(width_mm, height_mm, dpi, fault) ==
    /\ calls < MaxCalls
    /\ Finish("export_to_pdf", "PDF",
              RenderDesignToImage(design_data, MmToPxInt(width_mm, dpi),
                                  MmToPxInt(height_mm, dpi), dpi, font_cache),
              MmToPxInt(width_mm, dpi), MmToPxInt(height_mm, dpi), dpi,
              PdfCanvas(MmToPoints(width_mm), MmToPoints(height_mm)),
              fault, calls + 1)
    /\ temp_files' =
         IF outcome'.temp # 0 /\ fault = "encode"
         THEN temp_files \cup {outcome'.temp}
         ELSE temp_files
    /\ UNCHANGED <<app_vars, design_data, disk, reachable, default_font_path, threads>>


-----------------------------------------------------------------------------
(* PricingService (apps/products/services.py).  A Decimal amount is an      *)
(* integer number of 1/10000 rupee; the prices of the model are whole       *)
(* rupees and its percentages whole numbers, so every product and quotient  *)
(* by 100 below is exact, as it is in Decimal.                              *)

\* A null column, a key a dict does not have
None == -1
\* Decimal('n.00')
Money(n) == n * 10000
\* amount * (p / Decimal('100'))
PercentOf(amount, p) == (amount \div 100) * p
\* Python truth value of an integer or None
Set(v) == v # None /\ v # 0

\* The rows of ProductVariant and OptionValue
ProductVariants ==
    (1 :> [product |-> 1, price_modifier |-> 10, price_modifier_type |-> "fixed",
           is_active |-> TRUE, stock_quantity |-> None])
    @@ (2 :> [product |-> 1, price_modifier |-> 20, price_modifier_type |-> "percent",
              is_active |-> FALSE, stock_quantity |-> None])
    @@ (3 :> [product |-> 1, price_modifier |-> -100, price_modifier_type |-> "percent",
              is_active |-> TRUE, stock_quantity |-> 50])
    @@ (4 :> [product |-> 2, price_modifier |-> 5, price_modifier_type |-> "fixed",
              is_active |-> TRUE, stock_quantity |-> None])
OptionValues ==
    (1 :> [option |-> "Paper Type", price_modifier |-> 15,
           price_modifier_type |-> "fixed", is_active |-> TRUE])
    @@ (2 :> [option |-> "Finish", price_modifier |-> 0,
              price_modifier_type |-> "fixed", is_active |-> TRUE])

PricingTier(min_quantity, max_quantity, price_modifier, price_modifier_type) ==
    [min_quantity |-> min_quantity, max_quantity |-> max_quantity,
     price_modifier |-> price_modifier, price_modifier_type |-> price_modifier_type]
\* A PricingRule of type 'quantity', active and in its date range, with its
\* tiers in their ordering (min_quantity)
PricingRule(min_quantity, priority, tiers) ==
    [rule_type |-> "quantity", is_active |-> TRUE, in_date_range |-> TRUE,
     min_quantity |-> min_quantity, max_quantity |-> None, priority |-> priority,
     tiers |-> tiers]

\* ProductVariant.objects.get(id=variant_id, product=product, is_active=True)
VariantExists(product, variant_id) ==
    /\ variant_id \in DOMAIN ProductVariants
    /\ ProductVariants[variant_id].product = product.id
    /\ ProductVariants[variant_id].is_active

\* The modifier of a variant or of an option value
Modifier(product, row) ==
    IF row.price_modifier_type = "percent"
    THEN PercentOf(product.base_price, row.price_modifier)
    ELSE Money(row.price_modifier)

Line(type, total) == [type |-> type, total |-> total]

\* PricingService._calculate_variant_cost
CalculateVariantCost(product, variant_id, quantity) ==
    IF ~Set(variant_id) THEN [total |-> 0, breakdown |-> <<>>]
    ELSE IF ~VariantExists(product, variant_id) THEN [total |-> 0, breakdown |-> <<>>]
    ELSE IF ProductVariants[variant_id].price_modifier = 0
         THEN [total |-> 0, breakdown |-> <<>>]
    ELSE [total |-> Modifier(product, ProductVariants[variant_id]),
          breakdown |-> <<Line("variant",
                              Modifier(product, ProductVariants[variant_id]) * quantity)>>]

\* PricingService._calculate_options_cost: options is a sequence of
\* <<option name, value id>> in the order of the dict
RECURSIVE CalculateOptionsCost(_, _, _)
CalculateOptionsCost(product, options, quantity) ==
    IF options = <<>> THEN [total |-> 0, breakdown |-> <<>>]
    ELSE LET value_id == options[Len(options)][2]
             before == CalculateOptionsCost(product, SubSeq(options, 1, Len(options) - 1),
                                            quantity)
         IN IF value_id \notin DOMAIN OptionValues THEN before
            ELSE IF ~OptionValues[value_id].is_active THEN before
            ELSE IF OptionValues[value_id].price_modifier = 0 THEN before
            ELSE [total |-> before.total + Modifier(product, OptionValues[value_id]),
                  breakdown |->
                      Append(before.breakdown,
                             Line("option",
                                  Modifier(product, OptionValues[value_id]) * quantity))]

\* product.pricing_rules.filter(rule_type='quantity', is_active=True,
\* min_quantity__lte=quantity) and the three filters after it: a rule whose
\* min_quantity is null never passes min_quantity__lte
RuleApplies(rule, quantity) ==
    /\ rule.rule_type = "quantity" /\ rule.is_active
    /\ rule.min_quantity # None /\ rule.min_quantity <= quantity
    /\ rule.in_date_range
    /\ rule.max_quantity = None \/ rule.max_quantity >= quantity

TierApplies(tier, quantity) ==
    /\ tier.min_quantity <= quantity
    /\ tier.max_quantity = None \/ tier.max_quantity >= quantity

\* rule.tiers.filter(...).first(): the index of the tier, 0 for no tier
FirstTier(tiers, quantity) ==
    IF \E i \in 1..Len(tiers) : TierApplies(tiers[i], quantity)
    THEN CHOOSE i \in 1..Len(tiers) :
            /\ TierApplies(tiers[i], quantity)
            /\ \A j \in 1..(i - 1) : ~TierApplies(tiers[j], quantity)
    ELSE 0

\* The discount a rule's tier gives, 0 when the rule has no tier for the
\* quantity or the tier's type is neither 'discount_percent' nor 'fixed'
TierDiscount(tiers, i, subtotal) ==
    IF i = 0 THEN 0
    ELSE IF tiers[i].price_modifier_type = "discount_percent"
         THEN PercentOf(subtotal, tiers[i].price_modifier)
    ELSE IF tiers[i].price_modifier_type = "fixed" THEN Money(tiers[i].price_modifier)
    ELSE 0

\* The loop over applicable_rules (the rules are kept in the order of
\* order_by('-priority')): best_discount after the rules from index i
RECURSIVE BestDiscount(_, _, _, _, _)
BestDiscount(rules, i, quantity, subtotal, best_discount) ==
    IF i > Len(rules) THEN best_discount
    ELSE IF ~RuleApplies(rules[i], quantity)
         THEN BestDiscount(rules, i + 1, quantity, subtotal, best_discount)
    ELSE IF TierDiscount(rules[i].tiers, FirstTier(rules[i].tiers, quantity), subtotal)
                > best_discount
         THEN BestDiscount(rules, i + 1, quantity, subtotal,
                           TierDiscount(rules[i].tiers,
                                        FirstTier(rules[i].tiers, quantity), subtotal))
    ELSE BestDiscount(rules, i + 1, quantity, subtotal, best_discount)

\* default_discounts, read from the highest min down
DefaultDiscount(quantity, subtotal) ==
    IF quantity >= 300 THEN PercentOf(subtotal, 16)
    ELSE IF quantity >= 200 THEN PercentOf(subtotal, 12)
    ELSE IF quantity >= 100 THEN PercentOf(subtotal, 8)
    ELSE IF quantity >= 50 THEN PercentOf(subtotal, 4)
    ELSE IF quantity >= 25 THEN PercentOf(subtotal, 2)
    ELSE 0

\* The end of _calculate_quantity_discounts
DiscountInfo(best_discount) ==
    IF best_discount > 0
    THEN [amount |-> best_discount,
          breakdown |-> <<Line("discount", 0 - best_discount)>>,
          discounts |-> <<[type |-> "quantity", amount |-> best_discount]>>]
    ELSE [amount |-> 0, breakdown |-> <<>>, discounts |-> <<>>]

\* best_discount after the product's rules and then, if they gave nothing,
\* the default discounts
WithDefaultDiscount(best_discount, quantity, subtotal) ==
    IF best_discount = 0 THEN DefaultDiscount(quantity, subtotal) ELSE best_discount

\* PricingService._calculate_quantity_discounts
CalculateQuantityDiscounts(product, quantity, subtotal) ==
    DiscountInfo(WithDefaultDiscount(
                     BestDiscount(product.pricing_rules, 1, quantity, subtotal, 0),
                     quantity, subtotal))

\* PricingService._calculate_setup_fees
CalculateSetupFees(product, configuration) ==
    IF /\ product.product_type \in {"business_card", "brochure", "flyer"}
       /\ ~Set(configuration.existing_design_id)
    THEN [total |-> Money(100), breakdown |-> <<Line("setup", Money(100))>>]
    ELSE [total |-> 0, breakdown |-> <<>>]

\* self.tax_rates.get(country_code, self.tax_rates['default']), in percent
TaxRate(country_code) ==
    CASE country_code = "IN" -> 18
      [] country_code = "US" -> 8
      [] country_code = "EU" -> 20
      [] OTHER -> 18

\* PricingService._calculate_tax
CalculateTax(subtotal, country_code) ==
    IF PercentOf(subtotal, TaxRate(country_code)) > 0
    THEN [amount |-> PercentOf(subtotal, TaxRate(country_code)),
          breakdown |-> <<Line("tax", PercentOf(subtotal, TaxRate(country_code)))>>]
    ELSE [amount |-> 0, breakdown |-> <<>>]

\* total_shipping of _calculate_shipping: 50.00, 0.50 more for each unit
\* above 100, half as much again for rush delivery
TotalShipping(quantity, rush_delivery) ==
    LET total_shipping == IF quantity > 100 THEN Money(50) + (quantity - 100) * 5000
                          ELSE Money(50)
    IN IF rush_delivery THEN (total_shipping * 3) \div 2 ELSE total_shipping

\* PricingService._calculate_shipping
CalculateShipping(product, quantity, configuration) ==
    [amount |-> TotalShipping(quantity, configuration.rush_delivery),
     breakdown |-> <<Line("shipping", TotalShipping(quantity, configuration.rush_delivery))>>]

ZeroPricing ==
    [base_price |-> 0, variant_cost |-> 0, options_cost |-> 0, quantity_discount |-> 0,
     setup_fees |-> 0, rush_fee |-> 0, design_fee |-> 0, subtotal |-> 0, tax |-> 0,
     shipping |-> 0, total |-> 0, unit_price |-> 0]

\* result as calculate_comprehensive_price creates it ('savings' is a key
\* the result may come to have)
NewResult ==
    [pricing |-> ZeroPricing, breakdown |-> <<>>, discounts_applied |-> <<>>,
     warnings |-> <<>>, errors |-> <<>>, savings |-> <<>>]

Error(text, n) == [text |-> text, n |-> n]

\* The lines of the breakdown in the order they are appended
Breakdown(quantity, base_price, variant_cost, options_cost, discount_info, setup_fees, rush_fee, design_fee, tax_info, shipping_info, rush_delivery, design_service) ==
    <<Line("base", base_price * quantity)>>
        \o variant_cost.breakdown \o options_cost.breakdown
        \o discount_info.breakdown \o setup_fees.breakdown
        \o (IF rush_delivery THEN <<Line("fee", rush_fee)>> ELSE <<>>)
        \o (IF design_service THEN <<Line("service", design_fee)>> ELSE <<>>)
        \o tax_info.breakdown \o shipping_info.breakdown

\* The result once every amount is known.  The savings percentage divides
\* by subtotal_before_discount: a zero there raises, and the handler of
\* calculate_comprehensive_price adds an error to the result as it is.
Priced(quantity, base_price, variant_cost, options_cost, subtotal_before_discount, discount_info, setup_fees, rush_fee, design_fee, subtotal, tax_info, shipping_info, breakdown) ==
    [pricing |->
        [base_price |-> base_price, variant_cost |-> variant_cost.total,
         options_cost |-> options_cost.total,
         quantity_discount |-> discount_info.amount,
         setup_fees |-> setup_fees.total, rush_fee |-> rush_fee,
         design_fee |-> design_fee, subtotal |-> subtotal, tax |-> tax_info.amount,
         shipping |-> shipping_info.amount,
         total |-> subtotal + tax_info.amount + shipping_info.amount,
         unit_price |-> IF quantity > 0
                        THEN (subtotal + tax_info.amount + shipping_info.amount)
                                 \div quantity
                        ELSE 0],
     breakdown |-> breakdown,
     discounts_applied |-> discount_info.discounts,
     warnings |-> <<>>,
     errors |-> IF discount_info.amount > 0 /\ subtotal_before_discount = 0
                THEN <<Error("Pricing calculation error", 0)>> ELSE <<>>,
     savings |-> IF discount_info.amount > 0 /\ subtotal_before_discount # 0
                 THEN <<[amount |-> discount_info.amount]>> ELSE <<>>]

\* From the subtotal on: tax, shipping, total
AfterFees(product, configuration, quantity, variant_cost, options_cost, subtotal_before_discount, discount_info, setup_fees, rush_fee, design_fee, subtotal) ==
    Priced(quantity, product.base_price, variant_cost, options_cost,
           subtotal_before_discount, discount_info, setup_fees, rush_fee, design_fee,
           subtotal,
           CalculateTax(subtotal, configuration.country_code),
           CalculateShipping(product, quantity, configuration),
           Breakdown(quantity, product.base_price, variant_cost, options_cost,
                     discount_info, setup_fees, rush_fee, design_fee,
                     CalculateTax(subtotal, configuration.country_code),
                     CalculateShipping(product, quantity, configuration),
                     configuration.rush_delivery, configuration.design_service))

\* From the discount on: setup, rush and design fees, subtotal
AfterDiscount(product, configuration, quantity, variant_cost, options_cost, subtotal_before_discount, discount_info, setup_fees, rush_fee, design_fee) ==
    AfterFees(product, configuration, quantity, variant_cost, options_cost,
              subtotal_before_discount, discount_info, setup_fees, rush_fee, design_fee,
              subtotal_before_discount - discount_info.amount + setup_fees.total
                  + rush_fee + design_fee)

\* From subtotal_before_discount on, with the rush fee never charged
AfterCostsNoRushFee(product, configuration, quantity, variant_cost, options_cost, subtotal_before_discount) ==
    AfterDiscount(product, configuration, quantity, variant_cost, options_cost,
                  subtotal_before_discount,
                  CalculateQuantityDiscounts(product, quantity, subtotal_before_discount),
                  CalculateSetupFees(product, configuration),
                  0,
                  IF configuration.design_service THEN Money(1500) ELSE 0)

\* From subtotal_before_discount on
AfterCosts(product, configuration, quantity, variant_cost, options_cost, subtotal_before_discount) ==
    AfterDiscount(product, configuration, quantity, variant_cost, options_cost,
                  subtotal_before_discount,
                  CalculateQuantityDiscounts(product, quantity, subtotal_before_discount),
                  CalculateSetupFees(product, configuration),
                  IF configuration.rush_delivery
                  THEN PercentOf(subtotal_before_discount, product.rush_fee_percent)
                  ELSE 0,
                  IF configuration.design_service THEN Money(1500) ELSE 0)

\* From the variant and options costs on
AfterBase(product, configuration, quantity, variant_cost, options_cost) ==
    AfterCosts(product, configuration, quantity, variant_cost, options_cost,
               (product.base_price + variant_cost.total + options_cost.total) * quantity)

\* PricingService.calculate_comprehensive_price
CalculateComprehensivePrice(product, configuration) ==
    IF configuration.quantity < product.minimum_quantity
    THEN [NewResult EXCEPT
             !.errors = <<Error("Minimum quantity is", product.minimum_quantity)>>]
    ELSE AfterBase(product, configuration, configuration.quantity,
                   CalculateVariantCost(product, configuration.variant_id,
                                        configuration.quantity),
                   CalculateOptionsCost(product, configuration.options,
                                        configuration.quantity))

\* Whether options, a sequence of <<option name, value id>>, has the name
HasOption(options, name) == \E i \in 1..Len(options) : options[i][1] = name
\* options[name]
OptionOf(options, name) ==
    options[CHOOSE i \in 1..Len(options) : options[i][1] = name][2]

\* OptionValue.objects.get(id=value_id, option=option, is_active=True)
OptionValueExists(value_id, name) ==
    /\ value_id \in DOMAIN OptionValues
    /\ OptionValues[value_id].option = name
    /\ OptionValues[value_id].is_active

\* The loop of validate_configuration over the required options, from
\* option i
RECURSIVE OptionErrors(_, _, _)
OptionErrors(product_options, i, options) ==
    IF i > Len(product_options) THEN <<>>
    ELSE IF ~product_options[i].is_required
         THEN OptionErrors(product_options, i + 1, options)
    ELSE IF ~HasOption(options, product_options[i].name)
         THEN <<Error("Required option not selected", i)>>
                  \o OptionErrors(product_options, i + 1, options)
    ELSE IF ~OptionValueExists(OptionOf(options, product_options[i].name),
                               product_options[i].name)
         THEN <<Error("Invalid value for option", i)>>
                  \o OptionErrors(product_options, i + 1, options)
    ELSE OptionErrors(product_options, i + 1, options)

\* validate_configuration without its test of the minimum quantity
ValidateConfigurationNoMinimum(product, configuration) ==
    [errors |->
        (IF Set(product.max_quantity) /\ configuration.quantity > product.max_quantity
         THEN <<Error("Maximum quantity is", product.max_quantity)>> ELSE <<>>)
        \o (IF Set(configuration.variant_id)
                /\ ~VariantExists(product, configuration.variant_id)
            THEN <<Error("Invalid variant selected", 0)>> ELSE <<>>)
        \o OptionErrors(product.options, 1, configuration.options),
     warnings |-> <<>>]

\* PricingService.validate_configuration
ValidateConfiguration(product, configuration) ==
    [errors |->
        (IF configuration.quantity < product.minimum_quantity
         THEN <<Error("Minimum quantity is", product.minimum_quantity)>> ELSE <<>>)
        \o (IF Set(product.max_quantity) /\ configuration.quantity > product.max_quantity
            THEN <<Error("Maximum quantity is", product.max_quantity)>> ELSE <<>>)
        \o (IF Set(configuration.variant_id)
                /\ ~VariantExists(product, configuration.variant_id)
            THEN <<Error("Invalid variant selected", 0)>> ELSE <<>>)
        \o OptionErrors(product.options, 1, configuration.options),
     warnings |->
        IF /\ Set(configuration.variant_id)
           /\ VariantExists(product, configuration.variant_id)
           /\ ProductVariants[configuration.variant_id].stock_quantity # None
           /\ configuration.quantity > ProductVariants[configuration.variant_id].stock_quantity
        THEN <<Error("Requested quantity exceeds available stock",
                     ProductVariants[configuration.variant_id].stock_quantity)>>
        ELSE <<>>]

\* The products of the catalogue.  The first is the product of the tests
\* (tests.py:270-319, its prices divided by ten): its rule has no
\* min_quantity.
DiscountPercent(min_quantity, max_quantity, percent) ==
    PricingTier(min_quantity, max_quantity, percent, "discount_percent")
Products ==
    { [id |-> 1, product_type |-> "business_card", base_price |-> Money(50),
       minimum_quantity |-> 100, max_quantity |-> None, rush_fee_percent |-> 50,
       options |-> <<[name |-> "Paper Type", is_required |-> TRUE]>>,
       pricing_rules |->
           <<PricingRule(None, 1, <<DiscountPercent(250, 499, 10),
                                    DiscountPercent(500, None, 15)>>)>>],
      [id |-> 2, product_type |-> "poster", base_price |-> Money(20),
       minimum_quantity |-> 1, max_quantity |-> 300, rush_fee_percent |-> 50,
       options |-> <<>>,
       pricing_rules |->
           <<PricingRule(None, 1, <<DiscountPercent(10, 49, 10),
                                    DiscountPercent(50, None, 15)>>)>>],
      [id |-> 3, product_type |-> "flyer", base_price |-> Money(20),
       minimum_quantity |-> 10, max_quantity |-> None, rush_fee_percent |-> 0,
       options |-> <<[name |-> "Finish", is_required |-> FALSE]>>,
       pricing_rules |->
           <<PricingRule(10, 2, <<DiscountPercent(10, 49, 10),
                                  PricingTier(50, None, 20, "fixed")>>),
             PricingRule(10, 1, <<PricingTier(10, None, 5, "percent")>>)>>] }

Quantities == {5, 10, 50, 100, 250, 500}
Configurations ==
    [quantity : Quantities, variant_id : {None, 1, 2, 3, 4},
     options : {<<>>, <<<<"Paper Type", 1>>>>, <<<<"Paper Type", 2>>>>},
     rush_delivery : BOOLEAN, design_service : BOOLEAN, country_code : {"IN", "US"},
     existing_design_id : {None}]

\* Nothing was asked of the PricingService
NoShop ==
    [product |-> [id |-> 0], configuration |-> [quantity |-> 0], op |-> "none",
     result |-> [errors |-> <<>>], n |-> 0]

\* The row of UserDesign before finalize_and_order_view
NewUserDesign ==
    [is_ready_for_print |-> FALSE, is_ordered |-> FALSE, order_count |-> 0,
     stored_pdf |-> FALSE]

-----------------------------------------------------------------------------
(* Specification *)

\* No thread is inside _get_font
Idle ==
    [pc |-> "idle", font_family |-> Null, font_size |-> 0,
     got |-> [font |-> LoadDefault, files |-> <<>>], n |-> 0]

Init ==
    /\ design_data \in Designs
    /\ disk \in (IF HasKind(design_data, "Text") THEN SUBSET FontFiles
                 ELSE {FontFiles})
    /\ reachable \in (IF HasKind(design_data, "Image") THEN {{}, ImageSources}
                      ELSE {{}})
    /\ default_font_path = GetDefaultFontPath(disk)
    /\ font_cache = EmptyDict
    /\ temp_files = {}
    /\ calls = 0
    /\ outcome = NoOutcome
    /\ font_loads = <<>>
    /\ threads = [t \in Threads |-> Idle]
    /\ shop = NoShop
    /\ user_design = NewUserDesign

Next ==
    \/ \E fault \in EncodeFaults : GeneratePreview(fault)
    \/ \E size \in PngSizes, dpi \in Dpis, fault \in EncodeFaults :
            ExportToPng(size[1], size[2], dpi, fault)
    \/ \E size \in ApiSizesMm, dpi \in ApiDpis, fault \in EncodeFaults :
            ExportDesignApiPng(size[1], size[2], dpi, fault)
    \/ \E size \in PdfSizesMm, dpi \in PdfDpis, fault \in PdfFaults :
            ExportToPdf(size[1], size[2], dpi, fault)

Spec == Init /\ [][Next]_vars

-----------------------------------------------------------------------------
(* Threads in _get_font.  design_renderer is one instance shared by the     *)
(* request threads of the process; _get_font takes no lock, so a thread    *)
(* can be preempted between its statements: the test of the cache, the     *)
(* loading of the font, the store into the cache.                          *)

\* What the threads ask for
FontRequests == {Str("Arial"), Str("Helvetica"), Str("Nope")} \X {16}

ThreadKey(t) == CacheKey(threads[t].font_family, threads[t].font_size)

\* Thread t enters _get_font(font_family, font_size)
GetFontCall(t, font_family, font_size) ==
    /\ threads[t].pc = "idle"
    /\ threads[t].n < MaxFontCalls
    /\ threads' = [threads EXCEPT ![t] =
                      [pc |-> "check", font_family |-> font_family,
                       font_size |-> font_size, got |-> Idle.got,
                       n |-> threads[t].n + 1]]
    /\ UNCHANGED <<app_vars, design_data, disk, reachable, default_font_path, font_cache,
                   temp_files, calls, outcome, font_loads>>

\* if cache_key in self.font_cache: return self.font_cache[cache_key]
GetFontCheck(t) ==
    /\ threads[t].pc = "check"
    /\ threads' = [threads EXCEPT ![t].pc =
                      IF ThreadKey(t) \in DOMAIN font_cache THEN "idle" ELSE "load"]
    /\ UNCHANGED <<app_vars, design_data, disk, reachable, default_font_path, font_cache,
                   temp_files, calls, outcome, font_loads>>

\* The try block, or its handler: the font is loaded
GetFontLoad(t) ==
    /\ threads[t].pc = "load"
    /\ threads' = [threads EXCEPT
                      ![t].pc = "write",
                      ![t].got = LoadFont(threads[t].font_family, threads[t].font_size)]
    /\ font_loads' = font_loads \o LoadLog(ThreadKey(t), threads[t].font_size,
                                           threads'[t].got.files)
    /\ UNCHANGED <<app_vars, design_data, disk, reachable, default_font_path, font_cache,
                   temp_files, calls, outcome>>

\* self.font_cache[cache_key] = font; return font
GetFontWrite(t) ==
    /\ threads[t].pc = "write"
    /\ font_cache' = (ThreadKey(t) :> threads[t].got.font) @@ font_cache
    /\ threads' = [threads EXCEPT ![t].pc = "idle"]
    /\ UNCHANGED <<app_vars, design_data, disk, reachable, default_font_path, temp_files,
                   calls, outcome, font_loads>>

InitFonts ==
    /\ design_data = Stage(<<>>)
    /\ disk \in SUBSET FontFiles
    /\ reachable = {}
    /\ default_font_path = GetDefaultFontPath(disk)
    /\ font_cache = EmptyDict
    /\ temp_files = {}
    /\ calls = 0
    /\ outcome = NoOutcome
    /\ font_loads = <<>>
    /\ threads = [t \in Threads |-> Idle]
    /\ shop = NoShop
    /\ user_design = NewUserDesign

NextFonts ==
    \E t \in Threads :
        \/ \E request \in FontRequests : GetFontCall(t, request[1], request[2])
        \/ GetFontCheck(t)
        \/ GetFontLoad(t)
        \/ GetFontWrite(t)

SpecFonts == InitFonts /\ [][NextFonts]_vars

-----------------------------------------------------------------------------
(* Calls of _get_font one after the other, in a process whose font files   *)
(* change: a file missing at one call can be on the disk at the next.      *)
(* default_font_path stays what __init__ found.                            *)

\* One whole call of _get_font by caller t.  The caller keeps what it got,
\* whether the key was in the cache when it asked, and the font a load
\* would have made at that moment.
GetFontReturn(t, font_family, font_size, r) ==
    /\ threads[t].pc = "idle"
    /\ threads[t].n < MaxFontCalls
    /\ threads' = [threads EXCEPT ![t] =
                      [pc |-> "idle", font_family |-> font_family,
                       font_size |-> font_size,
                       got |-> [font |-> r.font, files |-> r.loaded],
                       hit |-> CacheKey(font_family, font_size) \in DOMAIN font_cache,
                       fresh |-> LoadFont(font_family, font_size).font,
                       n |-> threads[t].n + 1]]
    /\ font_cache' = r.cache
    /\ font_loads' = font_loads \o r.loaded
    /\ UNCHANGED <<app_vars, design_data, disk, reachable, default_font_path,
                   temp_files, calls, outcome>>

GetFontWhole(t, font_family, font_size) ==
    GetFontReturn(t, font_family, font_size, GetFont(font_cache, font_family, font_size))

\* A font file appears on the disk
InstallFont(file) ==
    /\ file \notin disk
    /\ disk' = disk \cup {file}
    /\ UNCHANGED <<app_vars, design_data, reachable, default_font_path, font_cache,
                   temp_files, calls, outcome, font_loads, threads>>

NextFontFiles ==
    \/ \E t \in Threads, request \in FontRequests :
            GetFontWhole(t, request[1], request[2])
    \/ \E file \in FontFiles : InstallFont(file)

SpecFontFiles == InitFonts /\ [][NextFontFiles]_vars

-----------------------------------------------------------------------------
(* finalize_and_order_view (apps/design_tool/views.py) on one UserDesign.  *)

\* The fields of UserDesign the view touches that the model class declares
UserDesignFields ==
    {"design_data", "final_width_mm", "final_height_mm", "is_ordered", "order_count",
     "is_ready_for_print", "last_modified"}

\* What the request asks for
OrderQuantities == {1, 2}

\* The view up to design.save().  The inner try exports the PDF and stores it
\* through design.print_ready_pdf, an attribute the class does not declare;
\* whatever is raised there is logged, and the flags are set after it.  The
\* cart rows the view writes next are not part of the design.
FinalizeAndOrderView(quantity, width_mm, height_mm, dpi, fault) ==
    /\ calls < MaxCalls
    /\ Finish("export_to_pdf", "PDF",
              RenderDesignToImage(design_data, MmToPxInt(width_mm, dpi),
                                  MmToPxInt(height_mm, dpi), dpi, font_cache),
              MmToPxInt(width_mm, dpi), MmToPxInt(height_mm, dpi), dpi,
              PdfCanvas(MmToPoints(width_mm), MmToPoints(height_mm)),
              fault, calls + 1)
    /\ temp_files' =
         IF outcome'.temp # 0 /\ fault = "encode"
         THEN temp_files \cup {outcome'.temp}
         ELSE temp_files
    /\ user_design' =
         [is_ready_for_print |-> TRUE,
          is_ordered |-> TRUE,
          order_count |-> user_design.order_count + quantity,
          stored_pdf |-> \/ user_design.stored_pdf
                         \/ /\ outcome'.status = "returned"
                            /\ "print_ready_pdf" \in UserDesignFields]
    /\ UNCHANGED <<shop, design_data, disk, reachable, default_font_path, threads>>

NextOrders ==
    \E quantity \in OrderQuantities, size \in PdfSizesMm, dpi \in PdfDpis,
       fault \in PdfFaults :
        FinalizeAndOrderView(quantity, size[1], size[2], dpi, fault)

SpecOrders == Init /\ [][NextOrders]_vars

-----------------------------------------------------------------------------
(* Threads in _render_design_to_image.  Each request thread renders its own *)
(* document on the one design_renderer; the image and the draw object are   *)
(* the call's own, self.font_cache is the instance's.  A thread can be      *)
(* preempted anywhere; the steps here are the call's entry, each layer of   *)
(* the stage, and the return.                                               *)

\* A Text whose fontFamily is an empty list, and one whose fontFamily is the
\* string that the list formats to
TextListFamily == Text(10, 60, List(<<>>), 16, Str("red"))
TextBracketFamily == Text(10, 60, Str("[]"), 16, Str("red"))

\* The documents the threads render
ThreadDesigns ==
    { Stage(<<Layer(<<TextArial>>), Layer(<<RectRed>>)>>),
      Stage(<<Layer(<<TextListFamily>>)>>),
      Stage(<<Layer(<<RectBlue>>), Layer(<<TextBracketFamily>>)>>) }
ThreadDpi == 72

\* No thread is inside _render_design_to_image
NotRendering ==
    [pc |-> "idle", data |-> Stage(<<>>), i |-> 0, ops |-> <<>>, start |-> EmptyDict,
     n |-> 0]

\* Thread t enters _render_design_to_image(data, ...): a new image, a new
\* draw object.  start keeps the font cache as it is at the entry.
RenderEnter(t, data) ==
    /\ threads[t].pc \in {"idle", "done"}
    /\ threads[t].n < MaxRenders
    /\ threads' = [threads EXCEPT ![t] =
                      [pc |-> "layers", data |-> data, i |-> 1, ops |-> <<>>,
                       start |-> font_cache, n |-> threads[t].n + 1]]
    /\ UNCHANGED <<app_vars, design_data, disk, reachable, default_font_path, font_cache,
                   temp_files, calls, outcome, font_loads>>

\* How the thread goes on after _render_layer ended as r: an exception
\* leaves the loop for the handler of _render_design_to_image
ThreadAfterLayer(t, r) ==
    /\ threads' = [threads EXCEPT
                      ![t].ops = r.ops,
                      ![t].i = threads[t].i + 1,
                      ![t].pc = IF r.raised THEN "return" ELSE "layers"]
    /\ font_cache' = r.font_cache
    /\ font_loads' = font_loads \o r.loads

\* for layer_data in stage_data.get('children', []): self._render_layer(...)
RenderNextLayer(t) ==
    /\ threads[t].pc = "layers"
    /\ threads[t].i <= Len(threads[t].data.children.list)
    /\ ThreadAfterLayer(t, RenderLayer(threads[t].data.children.list[threads[t].i],
                                       ThreadDpi,
                                       [ops |-> threads[t].ops,
                                        font_cache |-> font_cache, loads |-> <<>>,
                                        dispatched |-> <<>>],
                                       <<threads[t].i>>))
    /\ UNCHANGED <<app_vars, design_data, disk, reachable, default_font_path, temp_files,
                   calls, outcome>>

\* return img
RenderReturn(t) ==
    /\ \/ threads[t].pc = "return"
       \/ /\ threads[t].pc = "layers"
          /\ threads[t].i > Len(threads[t].data.children.list)
    /\ threads' = [threads EXCEPT ![t].pc = "done"]
    /\ UNCHANGED <<app_vars, design_data, disk, reachable, default_font_path, font_cache,
                   temp_files, calls, outcome, font_loads>>

InitRenders ==
    /\ design_data = Stage(<<>>)
    /\ disk \in SUBSET FontFiles
    /\ reachable = {}
    /\ default_font_path = GetDefaultFontPath(disk)
    /\ font_cache = EmptyDict
    /\ temp_files = {}
    /\ calls = 0
    /\ outcome = NoOutcome
    /\ font_loads = <<>>
    /\ threads = [t \in Threads |-> NotRendering]
    /\ shop = NoShop
    /\ user_design = NewUserDesign

NextRenders ==
    \E t \in Threads :
        \/ \E data \in ThreadDesigns : RenderEnter(t, data)
        \/ RenderNextLayer(t)
        \/ RenderReturn(t)

SpecRenders == InitRenders /\ [][NextRenders]_vars

-----------------------------------------------------------------------------
(* Requests to the PricingService for one product of the catalogue *)

\* service.calculate_comprehensive_price(product, configuration)
CalculateComprehensivePriceCall ==
    /\ shop.n < MaxRequests
    /\ shop' = [shop EXCEPT
                   !.n = shop.n + 1,
                   !.op = "calculate_comprehensive_price",
                   !.result = CalculateComprehensivePrice(shop.product,
                                                          shop.configuration)]
    /\ UNCHANGED <<renderer_vars, user_design>>

\* service.validate_configuration(product, configuration)
ValidateConfigurationCall ==
    /\ shop.n < MaxRequests
    /\ shop' = [shop EXCEPT
                   !.n = shop.n + 1,
                   !.op = "validate_configuration",
                   !.result = ValidateConfiguration(shop.product, shop.configuration)]
    /\ UNCHANGED <<renderer_vars, user_design>>

InitPricing ==
    /\ design_data = Stage(<<>>)
    /\ disk = {}
    /\ reachable = {}
    /\ default_font_path = GetDefaultFontPath(disk)
    /\ font_cache = EmptyDict
    /\ temp_files = {}
    /\ calls = 0
    /\ outcome = NoOutcome
    /\ font_loads = <<>>
    /\ threads = [t \in Threads |-> Idle]
    /\ shop \in {[NoShop EXCEPT !.product = p, !.configuration = c] :
                    p \in Products, c \in Configurations}
    /\ user_design = NewUserDesign

NextPricing ==
    \/ CalculateComprehensivePriceCall
    \/ ValidateConfigurationCall

SpecPricing == InitPricing /\ [][NextPricing]_vars


-----------------------------------------------------------------------------
(* Properties *)

Called == outcome.op # "none"
Ops == outcome.img.ops

IsPrefix(p, q) == Len(p) <= Len(q) /\ SubSeq(q, 1, Len(p)) = p
\* b is a later sibling of a: same parent, greater index
LaterSibling(a, b) ==
    /\ Len(a) = Len(b)
    /\ SubSeq(a, 1, Len(a) - 1) = SubSeq(b, 1, Len(b) - 1)
    /\ a[Len(a)] < b[Len(b)]

\* The node or something below it was painted by the last call
PaintedAt(path) == \E i \in 1..Len(Ops) : IsPrefix(path, Ops[i].path)

\* Painting the node on its own raises / paints something and returns
RendersAlone(node) ==
    RenderObject(node, outcome.dpi, StartState(font_cache), <<>>)
NodeRaises(node) == RendersAlone(node).raised
PaintsAlone(node) == ~RendersAlone(node).raised /\ RendersAlone(node).ops # <<>>

\* C1: when painting a node raises, the exception is caught at that node,
\* every later sibling of the node is still painted (also inside a Group),
\* and the render returns normally.
C1_FailingNodeIsolated ==
    Called =>
        /\ outcome.fault = "none" => outcome.status = "returned"
        /\ \A a, b \in AllNodes(design_data) :
              (/\ IsDict(a[2]) /\ LaterSibling(a[1], b[1])
               /\ NodeRaises(a[2]) /\ PaintsAlone(b[2]))
                  => PaintedAt(b[1])

IsImageNode(node) == IsDict(node) /\ Get(node, "className", "") = "Image"

\* The Image nodes whose source is given and cannot be loaded
UnloadableImage(node) ==
    /\ IsImageNode(node)
    /\ LET src == Get(node.attrs, "src", Str(""))
       IN /\ IsStr(src) /\ Truthy(src)
          /\ ~LoadImage(src.str).img

\* C2: an Image node whose source cannot be loaded gets a placeholder
\* rectangle of exactly its declared width and height at its position, and
\* its later siblings are still painted.
C2_PlaceholderOnLoadFailure ==
    Called =>
        \A n \in AllNodes(design_data) :
            UnloadableImage(n[2]) =>
                /\ \E i \in 1..Len(Ops) :
                      /\ Ops[i].path = n[1]
                      /\ Ops[i].kind = "rectangle"
                      /\ Ops[i].box = <<n[2].attrs.x.num, n[2].attrs.y.num,
                                        n[2].attrs.x.num + n[2].attrs.width.num,
                                        n[2].attrs.y.num + n[2].attrs.height.num>>
                /\ \A b \in AllNodes(design_data) :
                      (LaterSibling(n[1], b[1]) /\ PaintsAlone(b[2])) => PaintedAt(b[1])

\* C3: after an export_to_pdf call has returned or raised, no temporary file
\* the call created still exists.
C3_TempFileReleased ==
    (Called /\ outcome.op = "export_to_pdf") => outcome.temp \notin temp_files


\* A document that is structurally invalid: JSON text that does not parse, a
\* value that is no object, a children field that is not a list of objects
NotListOfObjects(v) ==
    ~IsList(v) \/ \E i \in 1..Len(v.list) : ~IsDict(v.list[i])
StructurallyInvalid(data) ==
    \/ IsStr(data) /\ JsonLoadsRaises(data.str)
    \/ ~IsDict(StageOf(data))
    \/ NotListOfObjects(Get(StageOf(data), "children", List(<<>>)))
    \/ \E i \in 1..Len(ChildrenOf(StageOf(data))) :
          NotListOfObjects(Get(ChildrenOf(StageOf(data))[i], "children", List(<<>>)))
    \/ \E n \in AllNodes(data) : ~IsDict(n[2])

\* The document fails before any layer is painted
InvalidAtTop(data) ==
    \/ IsStr(data) /\ JsonLoadsRaises(data.str)
    \/ ~IsDict(StageOf(data))
    \/ IterationRaises(Get(StageOf(data), "children", List(<<>>)))

C5_UniformScale ==
    [][(/\ outcome.status = "returned" /\ outcome'.status = "returned"
        /\ outcome.op = "export_to_png" /\ outcome'.op = "export_to_png")
        => /\ Len(outcome'.img.ops) = Len(Ops)
           /\ \A i \in 1..Len(Ops) :
                /\ \A k \in 1..4 :
                      outcome'.img.ops[i].box[k] * outcome.dpi
                          = Ops[i].box[k] * outcome'.dpi
                /\ outcome'.img.ops[i].width * outcome.dpi
                      = Ops[i].width * outcome'.dpi]_vars

\* p comes before q in the document (depth first, a parent before its children)
RECURSIVE PathBefore(_, _)
PathBefore(p, q) ==
    IF p = <<>> THEN q # <<>>
    ELSE IF q = <<>> THEN FALSE
    ELSE IF p[1] # q[1] THEN p[1] < q[1]
    ELSE PathBefore(Tail(p), Tail(q))

\* The corners of the boxes of the painted operations
SamplePixels == UNION {{<<Ops[i].box[1], Ops[i].box[2]>>, <<Ops[i].box[3], Ops[i].box[4]>>} :
                          i \in 1..Len(Ops)}

Red == <<255, 0, 0>>
Blue == <<0, 0, 255>>

\* C6: nodes are painted in document order (depth first, pre-order, never
\* re-ordered), so at a pixel that several nodes cover the node latest in
\* the document is the visible one; in Scenario C the pixel shared by the two
\* Rects of the Group has the colour of the second.
C6_PaintOrderIsDocumentOrder ==
    Called =>
        /\ \A i, j \in 1..Len(Ops) : i < j => ~PathBefore(Ops[j].path, Ops[i].path)
        /\ \A p \in SamplePixels : \A h \in Hits(outcome.img, p[1], p[2]) :
              ~PathBefore(Ops[TopOp(outcome.img, p[1], p[2])].path, Ops[h].path)
        /\ design_data = ScenarioC =>
              /\ PixelAt(outcome.img, 25, 20) = Blue
              /\ PixelAt(outcome.img, 15, 12) = Red

C6_Witness ==
    /\ Called /\ design_data = ScenarioC
    /\ Len(Ops) = 2 /\ Ops[1].path = <<1, 1, 1>> /\ Ops[2].path = <<1, 1, 2>>
    /\ Covers(Ops[1], 25, 20) /\ Covers(Ops[2], 25, 20)
    /\ PixelAt(outcome.img, 25, 20) = Blue


\* The background colour the document declares
DeclaresBackground(data) ==
    /\ IsDict(StageOf(data))
    /\ "background" \in DOMAIN StageOf(data)
    /\ Ink(StageOf(data).background).ok
DeclaredBackground(data) == Ink(StageOf(data).background).rgb

\* The corners and the centre of the raster of the last call
RasterProbes ==
    {<<0, 0>>, <<outcome.img.width - 1, 0>>, <<0, outcome.img.height - 1>>,
     <<outcome.img.width - 1, outcome.img.height - 1>>,
     <<outcome.img.width \div 2, outcome.img.height \div 2>>}

\* Every pixel of a raster of at most 100 x 100; of a larger one, with
\* nothing painted on it and so uniform, its corners and centre
AllPixels ==
    IF outcome.img.width <= 100 /\ outcome.img.height <= 100
    THEN (0..(outcome.img.width - 1)) \X (0..(outcome.img.height - 1))
    ELSE RasterProbes

\* C7: for a scene with no node the raster has exactly the
\* requested size and every pixel has the background colour the scene
\* declares.
C7_EmptySceneIsBackground ==
    (Called /\ DeclaresBackground(design_data) /\ AllNodes(design_data) = {}) =>
        /\ outcome.img.width = outcome.width /\ outcome.img.height = outcome.height
        /\ \A p \in AllPixels :
              PixelAt(outcome.img, p[1], p[2]) = DeclaredBackground(design_data)

\* The last call was export_to_png of a 100 x 100 raster at 72 dpi (scale 1)
PngAtScaleOne ==
    /\ outcome.op = "export_to_png" /\ outcome.status = "returned"
    /\ outcome.width = 100 /\ outcome.height = 100 /\ outcome.dpi = 72

\* C8 as claimed (Scenario A): on a 100x100 white canvas whose only top-level
\* node is Rect(10, 10, 30, 20, #ff0000), at scale 1, pixel (25, 20) is red
\* and pixel (5, 5) is white.
C8_ScenarioATopLevelRect ==
    (design_data = ScenarioATopLevel /\ PngAtScaleOne) =>
        /\ PixelAt(outcome.img, 25, 20) = Red
        /\ PixelAt(outcome.img, 5, 5) = White

\* C8 as amended: the same when the Rect is the only child of the canvas's
\* only top-level layer; a top-level entry is a layer, of which only the
\* children are painted.
C8_ScenarioARectInLayer ==
    (design_data = ScenarioAInLayer /\ PngAtScaleOne) =>
        /\ PixelAt(outcome.img, 25, 20) = Red
        /\ PixelAt(outcome.img, 5, 5) = White

C8_Witness ==
    /\ design_data = ScenarioAInLayer /\ PngAtScaleOne
    /\ Len(Ops) = 1 /\ Ops[1].box = <<10, 10, 40, 30>>
    /\ PixelAt(outcome.img, 25, 20) = Red

IsRectNode(node) == IsDict(node) /\ Get(node, "className", "") = "Rect"
IsTextNode(node) == IsDict(node) /\ Get(node, "className", "") = "Text"

\* The colour a colour value stands for: its own when it is a valid colour
\* string, opaque black otherwise
ResolvedColor(c) == IF IsStr(c) /\ PilGetColor(c.str).ok THEN PilGetColor(c.str).rgb ELSE Black

\* C9: colour resolution never fails the render: whatever the fill of a Rect
\* is (valid, unrecognized, malformed, not a string), the Rect is painted, in
\* that colour when it is valid and in opaque black when it is not.
C9_ColorNeverFailsRender ==
    (Called /\ ~StructurallyInvalid(design_data)) =>
        \A n \in AllNodes(design_data) :
            (/\ IsRectNode(n[2]) /\ Len(n[1]) = 2
             /\ Truthy(Get(n[2].attrs, "fill", Null))
             /\ AllNum({n[2].attrs.x, n[2].attrs.y, n[2].attrs.width, n[2].attrs.height}))
                => \E i \in 1..Len(Ops) :
                      /\ Ops[i].path = n[1] /\ Ops[i].part = "fill"
                      /\ Ops[i].ink = ResolvedColor(n[2].attrs.fill)


FontSizes == {0, 16, 66}

\* A font that can draw: the built-in one, or one loaded from an existing file
UsableFont(font) ==
    \/ font.kind = "default"
    \/ font.kind = "truetype" /\ font.file \in disk /\ font.size > 0

\* The fallback chain: the aliased font resource of the family, then the
\* default system font, then the built-in font
ChainFont(family, size) ==
    LET aliased == IF IsStr(family) /\ family.str \in MappedFamilies
                   THEN FontMapping(family.str) ELSE default_font_path
    IN IF size > 0 /\ aliased \in disk /\ ~IsList(family) THEN TrueType(aliased, size)
       ELSE IF size > 0 /\ default_font_path \in disk /\ ~IsList(family)
            THEN TrueType(default_font_path, size)
       ELSE LoadDefault

\* A Text node of a layer that has content and nothing wrong but, maybe, its
\* font family
TextWithContent(n) ==
    /\ IsTextNode(n[2]) /\ Len(n[1]) = 2
    /\ IsStr(Get(n[2].attrs, "text", Str(""))) /\ Truthy(Get(n[2].attrs, "text", Str("")))
    /\ AllNum({n[2].attrs.x, n[2].attrs.y, n[2].attrs.fontSize})
    /\ Ink(ParseColor(n[2].attrs.fill)).ok

\* C10: get_font never raises and always returns a usable font, the first of
\* the chain (aliased resource, default system font, built-in font) that
\* loads; so a Text node with content is painted whatever its font family.
C10_FontFallbackNeverRaises ==
    /\ \A f \in FontFamilies, size \in FontSizes :
          /\ ~GetFont(font_cache, f, size).raised
          /\ UsableFont(GetFont(font_cache, f, size).font)
          /\ GetFont(font_cache, f, size).font = ChainFont(f, size)
    /\ (Called /\ ~StructurallyInvalid(design_data)) =>
          \A n \in AllNodes(design_data) :
              TextWithContent(n) =>
                  \E i \in 1..Len(Ops) :
                      /\ Ops[i].path = n[1] /\ Ops[i].kind = "text"
                      /\ Ops[i].font =
                            ChainFont(n[2].attrs.fontFamily,
                                      (n[2].attrs.fontSize.num * outcome.dpi) \div 72)

C10_Witness ==
    /\ Called /\ disk = {}
    /\ \E n \in AllNodes(design_data) :
          /\ TextWithContent(n) /\ n[2].attrs.fontFamily = Str("Nope")
          /\ \E i \in 1..Len(Ops) :
                Ops[i].path = n[1] /\ Ops[i].kind = "text" /\ Ops[i].font = LoadDefault


\* C11 as claimed: a font resource is loaded from disk at most once for a
\* size, whatever families were asked for: no two loads are of the same file
\* at the same size.
C11_ResourceLoadedOnce ==
    \A i, j \in 1..Len(font_loads) :
        (font_loads[i].file = font_loads[j].file
            /\ font_loads[i].size = font_loads[j].size) => i = j

\* C11 as amended: lookups made one after the other are memoized by the
\* cache key, the requested family and the size: no two loads are for the
\* same key, and what was loaded for a key is what the cache holds for it.
C11_KeyLoadedOnce ==
    /\ \A i, j \in 1..Len(font_loads) :
          font_loads[i].key = font_loads[j].key => i = j
    /\ \A i \in 1..Len(font_loads) :
          /\ font_loads[i].key \in DOMAIN font_cache
          /\ font_cache[font_loads[i].key]
                = TrueType(font_loads[i].file, font_loads[i].size)

\* Two Text nodes were painted in one font that was loaded once
C11_Witness ==
    /\ Called
    /\ \E i, j \in 1..Len(Ops) :
          /\ i # j /\ Ops[i].kind = "text" /\ Ops[j].kind = "text"
          /\ Ops[i].font = Ops[j].font /\ Ops[i].font.kind = "truetype"
          /\ Cardinality({k \in 1..Len(font_loads) :
                            /\ font_loads[k].file = Ops[i].font.file
                            /\ font_loads[k].size = Ops[i].font.size}) = 1


\* C12: under every interleaving of concurrent get_font calls a cache key is
\* written at most once (no store is made under a key the cache already
\* holds) and an entry, once present, is never replaced or removed.
C12_KeyWrittenOnce ==
    [][/\ \A t \in Threads :
            (threads[t].pc = "write" /\ threads'[t].pc # "write")
                => ThreadKey(t) \notin DOMAIN font_cache
       /\ \A k \in DOMAIN font_cache :
            k \in DOMAIN font_cache' /\ font_cache'[k] = font_cache[k]]_vars


\* Source references of every shape: remote URLs, data URLs with and without
\* a comma, relative, absolute and traversing local paths
ImageRefs ==
    {"http://h/a", "http://h/b", "data:,AA", "data:AA", "a.png", "./a.png",
     "a..b", "../s", "/s", "a/../../s"}

IsDataRef(src) == StartsWith(Chars(src), <<"d","a","t","a",":">>)
IsHttpRef(src) == StartsWith(Chars(src), <<"h","t","t","p">>)

\* C13: the asset loader never raises: whatever fails (timeout, response
\* that is not 2xx, decode error, missing file, disallowed path, content that
\* is no image) the load returns None; and a reference goes to exactly one
\* of the three loaders, by its shape.  So a call whose Image source fails to
\* load still returns, with nothing pasted for that node.
C13_LoaderNeverRaises ==
    /\ \A src \in ImageRefs :
          /\ ~LoadImage(src).raised
          /\ LoadImage(src).loader =
                (IF IsDataRef(src) THEN "base64"
                 ELSE IF IsHttpRef(src) THEN "remote" ELSE "local")
          /\ \A fault \in Base64Faults :
                /\ ~Base64Loader(src, fault).raised
                /\ fault # "none" => ~Base64Loader(src, fault).img
          /\ \A fault \in RemoteFaults :
                /\ ~RemoteLoader(src, fault).raised
                /\ fault # "none" => ~RemoteLoader(src, fault).img
          /\ \A fault \in LocalFaults :
                /\ ~LocalLoader(src, fault).raised
                /\ (fault # "none" \/ SuspiciousPath(src)) => ~LocalLoader(src, fault).img
    /\ Called =>
          \A n \in AllNodes(design_data) :
              UnloadableImage(n[2]) =>
                  /\ outcome.fault = "none" => outcome.status = "returned"
                  /\ \A i \in 1..Len(Ops) :
                        Ops[i].path = n[1] => Ops[i].kind # "paste"

C13_Witness ==
    /\ Called /\ outcome.status = "returned"
    /\ \E n \in AllNodes(design_data) :
          /\ UnloadableImage(n[2])
          /\ LoadImage(n[2].attrs.src.str).loader = "remote"
          /\ \A i \in 1..Len(Ops) : Ops[i].path # n[1]
    /\ \E n \in AllNodes(design_data) :
          /\ IsImageNode(n[2]) /\ ~UnloadableImage(n[2])
          /\ \E i \in 1..Len(Ops) : Ops[i].path = n[1] /\ Ops[i].kind = "paste"


\* os.path.normpath of the segments of a path: "" and "." are dropped, ".."
\* removes the segment before it
RECURSIVE Resolve(_, _)
Resolve(segs, acc) ==
    IF segs = <<>> THEN acc
    ELSE IF Head(segs) \in {<<>>, <<".">>} THEN Resolve(Tail(segs), acc)
    ELSE IF Head(segs) = <<".", ".">>
         THEN Resolve(Tail(segs), IF acc = <<>> THEN acc ELSE SubSeq(acc, 1, Len(acc) - 1))
    ELSE Resolve(Tail(segs), Append(acc, Head(segs)))

\* The file named by the absolute path cs lies under the media root
UnderMediaRoot(cs) ==
    /\ IsAbs(cs)
    /\ IsPrefix(Resolve(SplitOn(MediaRoot, "/"), <<>>), Resolve(SplitOn(cs, "/"), <<>>))
    /\ Resolve(SplitOn(MediaRoot, "/"), <<>>) # Resolve(SplitOn(cs, "/"), <<>>)

\* The local references: the sources that go to the local loader
LocalRefs == {src \in ImageRefs : ~IsDataRef(src) /\ ~IsHttpRef(src)}

\* C14: a local reference that is an absolute path or that leaves the media
\* root through ".." is rejected (None, no file opened), and every file the
\* local loader opens lies under the media root; so no Image node with such
\* a source is pasted.
C14_LocalPathConfined ==
    /\ \A src \in LocalRefs, fault \in LocalFaults :
          /\ (IsAbs(Chars(src)) \/ ~UnderMediaRoot(JoinMediaRoot(Chars(src))))
                => /\ ~LocalLoader(src, fault).img
                   /\ LocalLoader(src, fault).opened = <<>>
          /\ \A i \in 1..Len(LocalLoader(src, fault).opened) :
                UnderMediaRoot(LocalLoader(src, fault).opened[i])
    /\ Called =>
          \A n \in AllNodes(design_data) :
              (/\ IsImageNode(n[2]) /\ IsStr(Get(n[2].attrs, "src", Str("")))
               /\ Get(n[2].attrs, "src", Str("")).str \in LocalRefs
               /\ \E i \in 1..Len(Ops) : Ops[i].path = n[1] /\ Ops[i].kind = "paste")
                  => /\ LoadImage(n[2].attrs.src.str).opened # <<>>
                     /\ UnderMediaRoot(LoadImage(n[2].attrs.src.str).opened[1])

\* An image under the media root was pasted and one outside it was not
C14_Witness ==
    /\ Called
    /\ \E n \in AllNodes(design_data) :
          /\ IsImageNode(n[2]) /\ n[2].attrs.src = Str("a.png")
          /\ \E i \in 1..Len(Ops) : Ops[i].path = n[1] /\ Ops[i].kind = "paste"
    /\ \E n \in AllNodes(design_data) :
          /\ IsImageNode(n[2]) /\ n[2].attrs.src = Str("../s")
          /\ \A i \in 1..Len(Ops) : Ops[i].path # n[1]


\* What an operation draws, whatever node drew it
Drawn(ops) ==
    [i \in 1..Len(ops) |->
        [kind |-> ops[i].kind, part |-> ops[i].part, box |-> ops[i].box,
         ink |-> ops[i].ink, width |-> ops[i].width]]

\* The scene of Scenario D without the node of the unrecognized kind
WithoutUnknown(data) ==
    IF data = ScenarioD THEN Stage(<<Layer(<<RectRed, RectBlue>>)>>)
    ELSE Stage(<<Layer(<<Group(<<RectRed, RectBlue>>)>>)>>)

\* C15 (Scenario D): a node of an unrecognized kind between two Rects, in a
\* layer or in a Group, is skipped without error and without painting: the
\* call succeeds, nothing is painted for the node, and the two rectangles are
\* painted exactly as they are without it.
C15_UnknownKindSkipped ==
    (Called /\ design_data \in {ScenarioD, ScenarioDInGroup}) =>
        /\ outcome.fault = "none" => outcome.status = "returned"
        /\ ~outcome.swallowed
        /\ \A n \in AllNodes(design_data) :
              n[2] = UnknownKind => \A i \in 1..Len(Ops) : Ops[i].path # n[1]
        /\ Drawn(Ops)
              = Drawn(RenderStage(WithoutUnknown(design_data), outcome.dpi, EmptyDict).ops)
        /\ PixelAt(outcome.img, 12, 12) = Red
        /\ PixelAt(outcome.img, 45, 30) = Blue

C15_Witness ==
    /\ Called /\ design_data = ScenarioDInGroup /\ outcome.status = "returned"
    /\ Len(Ops) = 2
    /\ \E n \in AllNodes(design_data) : n[2] = UnknownKind


\* C16 as claimed: export_to_pdf sizes its raster with round(mm * dpi / 25.4).
C16_RasterIsRounded ==
    [][\A size \in PdfSizesMm, dpi \in PdfDpis, fault \in PdfFaults :
          ExportToPdf(size[1], size[2], dpi, fault) =>
              /\ outcome'.img.width = MmToPxRound(size[1], dpi)
              /\ outcome'.img.height = MmToPxRound(size[2], dpi)]_vars

\* n is x cut to an integer, for x = mm * dpi / 25.4 that is not negative
IsTruncated(n, mm_, dpi) ==
    n * 254 <= mm_ * dpi * 10 /\ mm_ * dpi * 10 < (n + 1) * 254

\* C16 as amended: export_to_pdf sizes its raster with int(mm * dpi / 25.4),
\* which cuts the fraction off: the raster is int(width_mm * dpi / 25.4) by
\* int(height_mm * dpi / 25.4) pixels.
C16_RasterIsTruncated ==
    [][\A size \in PdfSizesMm, dpi \in PdfDpis, fault \in PdfFaults :
          ExportToPdf(size[1], size[2], dpi, fault) =>
              /\ IsTruncated(outcome'.img.width, size[1], dpi)
              /\ IsTruncated(outcome'.img.height, size[2], dpi)]_vars

\* A PDF export of 89 mm x 54 mm at 300 dpi rasterized 1051 x 637 pixels
C16_Witness ==
    /\ outcome.op = "export_to_pdf" /\ outcome.dpi = 300
    /\ outcome.img.width = 1051 /\ outcome.img.height = 637

\* C17 as claimed (Scenario B): a PNG export at 89 mm x 54 mm and 300 dpi
\* returns an image of exactly 1050 x 638 pixels.
C17_ScenarioB1050x638 ==
    [][\A fault \in EncodeFaults :
          (ExportDesignApiPng(89, 54, 300, fault) /\ outcome'.status = "returned") =>
              outcome'.img.width = 1050 /\ outcome'.img.height = 638]_vars

\* C17 as amended (Scenario B): a PNG export at 89 mm x 54 mm and 300 dpi
\* returns an image of exactly int(89 * 300 / 25.4) x int(54 * 300 / 25.4)
\* = 1051 x 637 pixels.
C17_ScenarioB1051x637 ==
    [][\A fault \in EncodeFaults :
          (ExportDesignApiPng(89, 54, 300, fault) /\ outcome'.status = "returned") =>
              outcome'.img.width = 1051 /\ outcome'.img.height = 637]_vars

C17_Witness ==
    /\ outcome.op = "export_to_png" /\ outcome.status = "returned"
    /\ outcome.dpi = 300
    /\ outcome.img.width = 1051 /\ outcome.img.height = 637

\* C18: export_to_pdf makes exactly one page of width_mm * 2.834645669 by
\* height_mm * 2.834645669 points and draws the raster on all of it: lower
\* left corner at (0, 0), drawn width and height those of the page.
C18_PdfPageFullBleed ==
    [][\A size \in PdfSizesMm, dpi \in PdfDpis, fault \in PdfFaults :
          (ExportToPdf(size[1], size[2], dpi, fault) /\ outcome'.status = "returned") =>
              /\ outcome'.pdf.pages = 1
              /\ outcome'.pdf.pagesize =
                    << <<size[1] * 2834645, size[1] * 669>>,
                       <<size[2] * 2834645, size[2] * 669>> >>
              /\ outcome'.pdf.image.x = 0 /\ outcome'.pdf.image.y = 0
              /\ outcome'.pdf.image.width = outcome'.pdf.pagesize[1]
              /\ outcome'.pdf.image.height = outcome'.pdf.pagesize[2]]_vars

C18_Witness ==
    /\ outcome.op = "export_to_pdf" /\ outcome.status = "returned"
    /\ outcome.pdf.pages = 1
    /\ outcome.pdf.pagesize[1] = <<89 * 2834645, 89 * 669>>
    /\ outcome.pdf.image.height = <<54 * 2834645, 54 * 669>>


\* Two calls of export_to_png, one after the other, with the same width,
\* height and dpi, that both returned
SamePngTwice ==
    /\ outcome.op = "export_to_png" /\ outcome'.op = "export_to_png"
    /\ calls' = calls + 1
    /\ outcome.status = "returned" /\ outcome'.status = "returned"
    /\ outcome'.width = outcome.width /\ outcome'.height = outcome.height
    /\ outcome'.dpi = outcome.dpi

\* C19: rendering is deterministic: the same scene rendered twice with the
\* same width, height, dpi and font availability gives the same PNG, the
\* second render, served from the font cache the first one filled, included.
C19_SameInputsSamePng ==
    [][SamePngTwice => outcome'.img = outcome.img]_vars

\* A second call painted its text in a font file that the first call loaded:
\* the file was loaded once in the two calls
C19_Witness ==
    /\ calls = 2 /\ outcome.op = "export_to_png" /\ outcome.status = "returned"
    /\ font_loads # <<>>
    /\ \E i \in 1..Len(Ops) :
          /\ Ops[i].kind = "text" /\ Ops[i].font.kind = "truetype"
          /\ Cardinality({k \in 1..Len(font_loads) :
                            /\ font_loads[k].file = Ops[i].font.file
                            /\ font_loads[k].size = Ops[i].font.size}) = 1
    /\ \A k \in 1..Len(font_loads) :
          font_loads[k].size = (16 * outcome.dpi) \div 72


\* C20: a failure of the encoder, of the writing of the temporary raster or
\* of drawing into or saving the PDF, in generate_preview, export_to_png or
\* export_to_pdf, makes the whole call fail: the call raises and returns no
\* bytes, no PDF among them.
C20_OutputFailurePropagates ==
    (Called /\ outcome.fault # "none") =>
        /\ outcome.op \in {"generate_preview", "export_to_png", "export_to_pdf"}
        /\ outcome.status = "raised"
        /\ outcome.pdf = NoPdf

\* The PDF was rendered and drawn, its save failed, and the call raised
C20_Witness ==
    /\ outcome.op = "export_to_pdf" /\ outcome.fault = "save"
    /\ outcome.status = "raised" /\ outcome.img.width = 1051


\* C21: concurrent render calls on the shared renderer share no mutable
\* render state: under every interleaving the raster a call returns is the
\* raster the same call returns when it runs alone from the state it was
\* entered in.
C21_RasterAsWhenAlone ==
    \A t \in Threads :
        threads[t].pc = "done" =>
            threads[t].ops = RenderStage(threads[t].data, ThreadDpi, threads[t].start).ops


\* The configuration has a valid active variant and a valid value for every
\* required option
ValidVariantAndOptions ==
    /\ Set(shop.configuration.variant_id)
    /\ VariantExists(shop.product, shop.configuration.variant_id)
    /\ \A i \in 1..Len(shop.product.options) :
          shop.product.options[i].is_required =>
              /\ HasOption(shop.configuration.options, shop.product.options[i].name)
              /\ OptionValueExists(OptionOf(shop.configuration.options,
                                            shop.product.options[i].name),
                                   shop.product.options[i].name)

BelowMinimum == shop.configuration.quantity < shop.product.minimum_quantity
AboveMaximum ==
    /\ shop.product.max_quantity # None /\ shop.product.max_quantity # 0
    /\ shop.configuration.quantity > shop.product.max_quantity
Validated == shop.op = "validate_configuration"
Calculated == shop.op = "calculate_comprehensive_price"

\* What C22 says of a quantity below the minimum: validate_configuration's
\* first error names the minimum quantity, and calculate_comprehensive_price
\* returns that error, every amount zero and an empty breakdown
RejectsBelowMinimum ==
    /\ (Validated /\ BelowMinimum) =>
          /\ shop.result.errors # <<>>
          /\ shop.result.errors[1] =
                Error("Minimum quantity is", shop.product.minimum_quantity)
    /\ (Calculated /\ BelowMinimum) =>
          /\ shop.result.errors =
                <<Error("Minimum quantity is", shop.product.minimum_quantity)>>
          /\ \A k \in DOMAIN shop.result.pricing : shop.result.pricing[k] = 0
          /\ shop.result.breakdown = <<>>

\* C22 as claimed: a quantity below the minimum is rejected, and
\* validate_configuration returns no errors for a quantity at or above the
\* minimum with a valid active variant and valid values for all required
\* options.
C22_ValidAtOrAboveMinimum ==
    /\ RejectsBelowMinimum
    /\ (Validated /\ ~BelowMinimum /\ ValidVariantAndOptions) =>
          shop.result.errors = <<>>

\* C22 as amended: a quantity below the minimum is rejected, and
\* validate_configuration returns no errors for a quantity at or above the
\* minimum and not above the product's maximum quantity, if it has one, with
\* a valid active variant and valid values for all required options.
C22_ValidWithinQuantityLimits ==
    /\ RejectsBelowMinimum
    /\ (Validated /\ ~BelowMinimum /\ ~AboveMaximum /\ ValidVariantAndOptions) =>
          shop.result.errors = <<>>

\* A quantity below the minimum was priced and rejected
C22_Witness ==
    /\ Calculated /\ BelowMinimum
    /\ shop.configuration.quantity = 50 /\ shop.product.minimum_quantity = 100
    /\ shop.result.errors # <<>>


\* The pricing of the state's configuration without and with rush delivery
PricingWithRush(rush_delivery) ==
    CalculateComprehensivePrice(
        shop.product, [shop.configuration EXCEPT !.rush_delivery = rush_delivery]).pricing

\* The price of one unit before discounts: base price, variant and options
UnitBeforeDiscount ==
    shop.product.base_price
        + CalculateVariantCost(shop.product, shop.configuration.variant_id,
                               shop.configuration.quantity).total
        + CalculateOptionsCost(shop.product, shop.configuration.options,
                               shop.configuration.quantity).total

RushProduct ==
    shop.product.base_price > 0 /\ shop.product.rush_fee_percent > 0

\* What C23 says of the two results
RushCostsMore(normal, rush) ==
    /\ normal.rush_fee = 0
    /\ rush.rush_fee > 0
    /\ rush.total > normal.total

\* C23 as claimed: for a product with positive base price and positive
\* rush_fee_percent and a quantity at or above the minimum, rush_fee is 0
\* without rush_delivery and positive with it, and the total with it is
\* strictly greater than the total of the same configuration without it.
C23_RushFeeForEveryConfiguration ==
    (Calculated /\ RushProduct /\ ~BelowMinimum) =>
        RushCostsMore(PricingWithRush(FALSE), PricingWithRush(TRUE))

\* C23 as amended: the same, for the configurations whose unit price before
\* discounts (base price plus the variant's and the options' modifiers) is
\* positive.
C23_RushFeeForPositiveUnitPrice ==
    (Calculated /\ RushProduct /\ ~BelowMinimum /\ UnitBeforeDiscount > 0) =>
        RushCostsMore(PricingWithRush(FALSE), PricingWithRush(TRUE))

\* A configuration with rush delivery was priced and the rush fee charged
C23_Witness ==
    /\ Calculated /\ RushProduct /\ ~BelowMinimum /\ UnitBeforeDiscount > 0
    /\ shop.configuration.rush_delivery
    /\ shop.result.pricing.rush_fee > 0
    /\ shop.result.pricing = PricingWithRush(TRUE)


\* The percentage of the product's discount tier that quantity falls in, 0
\* when it falls in none: the tiers of the product's active quantity rules
\* of type 'discount_percent'
TierPercent(quantity) ==
    LET percents ==
            {r[2].price_modifier :
                r \in {x \in UNION {{<<rule, rule.tiers[i]>> : i \in 1..Len(rule.tiers)} :
                                       rule \in {shop.product.pricing_rules[k] :
                                                   k \in 1..Len(shop.product.pricing_rules)}} :
                          /\ x[1].rule_type = "quantity" /\ x[1].is_active
                          /\ x[2].price_modifier_type = "discount_percent"
                          /\ TierApplies(x[2], quantity)}}
    IN IF percents = {} THEN 0 ELSE CHOOSE m \in percents : \A n \in percents : m >= n

QuantityDiscountAt(quantity) ==
    CalculateComprehensivePrice(
        shop.product, [shop.configuration EXCEPT !.quantity = quantity]
    ).pricing.quantity_discount

\* C24: for a product with discount tiers and a configuration with a
\* positive unit price, a quantity that falls in a discount tier gets
\* quantity_discount > 0, of two quantities the one in the higher tier gets
\* the strictly larger quantity_discount, and a result with
\* quantity_discount > 0 carries 'savings'.
C24_DiscountGrowsWithTier ==
    (Calculated /\ ~BelowMinimum /\ UnitBeforeDiscount > 0) =>
        /\ TierPercent(shop.configuration.quantity) > 0 =>
              shop.result.pricing.quantity_discount > 0
        /\ \A higher \in Quantities :
              (/\ higher > shop.configuration.quantity
               /\ TierPercent(higher) > TierPercent(shop.configuration.quantity)
               /\ TierPercent(shop.configuration.quantity) > 0) =>
                  QuantityDiscountAt(higher) > shop.result.pricing.quantity_discount
        /\ shop.result.pricing.quantity_discount > 0 => shop.result.savings # <<>>


IsShapeNode(node) ==
    IsDict(node) /\ Get(node, "className", "") \in {"Rect", "Circle", "Ellipse"}

\* The attributes the bounding box of a shape is computed from
ShapeGeometry(node) ==
    CASE node.className = "Rect" ->
            {Get(node.attrs, "x", Num(0)), Get(node.attrs, "y", Num(0)),
             Get(node.attrs, "width", Num(100)), Get(node.attrs, "height", Num(100))}
      [] node.className = "Circle" ->
            {Get(node.attrs, "x", Num(0)), Get(node.attrs, "y", Num(0)),
             Get(node.attrs, "radius", Num(50))}
      [] node.className = "Ellipse" ->
            {Get(node.attrs, "x", Num(0)), Get(node.attrs, "y", Num(0)),
             Get(node.attrs, "radiusX", Num(50)), Get(node.attrs, "radiusY", Num(30))}

\* A shape with numbers for its geometry and stroke width and, where it has
\* a fill or a stroke, a colour PIL knows
WellFormedShape(node) ==
    /\ IsShapeNode(node) /\ IsDict(Get(node, "attrs", EmptyDict))
    /\ AllNum(ShapeGeometry(node))
    /\ IsNum(Get(node.attrs, "strokeWidth", Num(1)))
    /\ Truthy(Get(node.attrs, "fill", Null)) =>
          Ink(ParseColor(Get(node.attrs, "fill", Null))).ok
    /\ Truthy(Get(node.attrs, "stroke", Null)) =>
          Ink(ParseColor(Get(node.attrs, "stroke", Null))).ok

PartPainted(path, part) ==
    \E i \in 1..Len(Ops) : Ops[i].path = path /\ Ops[i].part = part

\* C25: for Rect, Circle and Ellipse the fill is painted if and only if a
\* fill colour is set, the outline if and only if a stroke colour and a
\* positive stroke width, a fractional one between 0 and 1 included, are
\* set, and the fill is painted before the outline.
C25_FillIffSetStrokeIffPositive ==
    (Called /\ ~outcome.swallowed) =>
        \A n \in AllNodes(design_data) :
            (Len(n[1]) = 2 /\ WellFormedShape(n[2])) =>
                /\ PartPainted(n[1], "fill") <=> Truthy(Get(n[2].attrs, "fill", Null))
                /\ PartPainted(n[1], "outline") <=>
                      /\ Truthy(Get(n[2].attrs, "stroke", Null))
                      /\ Positive(Get(n[2].attrs, "strokeWidth", Num(1)))
                /\ \A i, j \in 1..Len(Ops) :
                      (/\ Ops[i].path = n[1] /\ Ops[i].part = "fill"
                       /\ Ops[j].path = n[1] /\ Ops[j].part = "outline") => i < j


IsLineNode(node) == IsDict(node) /\ Get(node, "className", "") = "Line"

\* A Line whose points are a flat list of numbers, with a stroke colour PIL
\* knows and a number for its stroke width
WellFormedLine(node) ==
    /\ IsLineNode(node) /\ IsDict(Get(node, "attrs", EmptyDict))
    /\ IsList(Get(node.attrs, "points", List(<<>>)))
    /\ \A i \in 1..Len(node.attrs.points.list) : IsNum(node.attrs.points.list[i])
    /\ IsNum(Get(node.attrs, "strokeWidth", Num(1)))
    /\ Ink(ParseColor(Get(node.attrs, "stroke", Str("#000000")))).ok

\* r, the painting of a Line with the coordinates points, is n - 1 segments
\* from point k to point k + 1 for n = floor(Len(points) / 2) >= 2 points,
\* nothing for fewer, and no exception
JoinsConsecutivePoints(points, r) ==
    /\ ~r.raised
    /\ Len(r.ops) = IF Len(points) \div 2 >= 2 THEN (Len(points) \div 2) - 1 ELSE 0
    /\ \A k \in 1..Len(r.ops) :
          /\ r.ops[k].kind = "line"
          /\ r.ops[k].box = <<points[2 * k - 1].num, points[2 * k].num,
                              points[2 * k + 1].num, points[2 * k + 2].num>>

\* C26: a Line with a flat coordinate list of any length and n complete
\* points paints exactly n - 1 segments, the k-th from point k to point
\* k + 1, if n >= 2 and nothing if n < 2, and raises for no list length.
C26_LineJoinsConsecutivePoints ==
    Called =>
        \A n \in AllNodes(design_data) :
            WellFormedLine(n[2]) =>
                JoinsConsecutivePoints(n[2].attrs.points.list, RendersAlone(n[2]))


\* A top-level entry that fails outside a per-child catch: it is no object,
\* its children cannot be iterated, or one of its children is no object
LayerFails(layer) ==
    \/ ~IsDict(layer)
    \/ IterationRaises(Get(layer, "children", List(<<>>)))
    \/ \E j \in 1..Len(ChildrenOf(layer)) : ~IsDict(ChildrenOf(layer)[j])

\* The top-level entries of a document that parses, and the first that fails
TopLevel == ChildrenOf(StageOf(design_data))
FailsAtLayer(i) ==
    /\ i \in 1..Len(TopLevel) /\ LayerFails(TopLevel[i])
    /\ \A k \in 1..(i - 1) : ~LayerFails(TopLevel[k])

IsGetFontStep(t) == threads'[t].n = threads[t].n + 1
AskedKey(t) == CacheKey(threads'[t].font_family, threads'[t].font_size)

\* C28: the built-in fallback is cached like a loaded font.  Every call
\* leaves the font it returns under its key, and a call whose key holds the
\* built-in font returns it, loads nothing and leaves the cache as it is,
\* whatever the disk holds by then.
GetFontStepKeepsFallback(t) ==
    IsGetFontStep(t) =>
        /\ AskedKey(t) \in DOMAIN font_cache'
        /\ font_cache'[AskedKey(t)] = threads'[t].got.font
        /\ (AskedKey(t) \in DOMAIN font_cache /\ font_cache[AskedKey(t)] = LoadDefault) =>
              /\ threads'[t].got.font = LoadDefault
              /\ font_loads' = font_loads
              /\ font_cache' = font_cache
RECURSIVE WalkedBefore(_, _)
WalkedBefore(p, q) ==
    IF p = <<>> THEN q # <<>>
    ELSE IF q = <<>> THEN FALSE
    ELSE IF p[1] # q[1] THEN p[1] < q[1]
    ELSE WalkedBefore(Tail(p), Tail(q))

Dispatched == outcome.dispatched
\* No layer and no node of the tree raises
NothingRaises ==
    /\ \A i \in 1..Len(TopLevel) : ~LayerFails(TopLevel[i])
    /\ \A n \in AllNodes(design_data) : IsDict(n[2]) /\ ~NodeRaises(n[2])
Depth(data) == CHOOSE d \in 0..(MaxDepth + 3) :
    /\ \E n \in AllNodes(data) : Len(n[1]) = d
    /\ \A n \in AllNodes(data) : Len(n[1]) <= d

\* C29: the walk ends for every tree whatever the depth of its Groups, and
\* no depth is cut off: every call finishes, the nodes are dispatched in the
\* order of the walk (a Group before its children, children in list order,
\* hence none twice), only nodes of the tree are dispatched, and when no
\* node raises every node of the tree is dispatched, the deepest included.
C29_WalkEndsEachNodeOnce ==
    (Called /\ ~InvalidAtTop(design_data)) =>
        /\ outcome.status \in {"returned", "raised"}
        /\ \A i, j \in 1..Len(Dispatched) :
              i < j => WalkedBefore(Dispatched[i], Dispatched[j])
        /\ \A i \in 1..Len(Dispatched) :
              \E n \in AllNodes(design_data) : n[1] = Dispatched[i]
        /\ NothingRaises =>
              \A n \in AllNodes(design_data) :
                  \E i \in 1..Len(Dispatched) : Dispatched[i] = n[1]

\* A tree with Groups nested as deep as the model goes was walked to its
\* deepest node, which was painted
C29_Witness ==
    /\ Called /\ outcome.status = "returned"
    /\ design_data = Stage(<<Layer(<<Nested(MaxDepth), RectStroked>>)>>)
    /\ NothingRaises
    /\ Depth(design_data) = MaxDepth + 2
    /\ \E i \in 1..Len(Ops) : Len(Ops[i].path) = MaxDepth + 2
    /\ Len(Dispatched) = 3 * MaxDepth + 2


\* C30: a design flagged ready for print and ordered has a stored print-ready
\* PDF, and a PDF export that failed leaves the design not flagged.
C30_ReadyOnlyWithStoredPdf ==
    /\ (user_design.is_ready_for_print \/ user_design.is_ordered) =>
          user_design.stored_pdf
    /\ (Called /\ outcome.status = "raised") => ~user_design.is_ready_for_print


====
